---------------------------- MODULE Spec2Model ----------------------------
(* GearGuard: the role-permission matrix (backend server.js and frontend   *)
(* permissions.js) and the maintenance-request routes of the Express       *)
(* backend that apply it.  Every await of a handler on the store is one    *)
(* step, so that concurrently served HTTP requests interleave between      *)
(* their store accesses as they do on the Node event loop.                 *)
EXTENDS Integers, Sequences, FiniteSets, TLC

(* ------------------------------------------------------------------ *)
(* Bounds                                                               *)
(* ------------------------------------------------------------------ *)
\* HTTP requests accepted in one behaviour.
MaxOps == 2
\* Rows of maintenance_requests present at start, ids 1..NumRequests.
NumRequests == 2
\* Timers a page may have pending at a time.
MaxTimers == 2

(* ------------------------------------------------------------------ *)
(* JavaScript values                                                    *)
(* ------------------------------------------------------------------ *)
JSNull == "<null>"
JSUndefined == "<undefined>"
\* JS truthiness of a role / id value (strings, null, undefined).
Truthy(v) == v \notin {JSNull, JSUndefined, ""}

\* A JS reference to a user object: null, undefined, or an object whose
\* role property is a string, null or absent (undefined).
NoUser == [kind |-> "null", id |-> JSNull, role |-> JSUndefined]
UndefUser == [kind |-> "undefined", id |-> JSUndefined, role |-> JSUndefined]
UserObject(id, role) == [kind |-> "object", id |-> id, role |-> role]
IsObject(u) == u.kind = "object"

Roles == {"ADMIN", "MANAGER", "TECHNICIAN", "EMPLOYEE"}

\* Faulty variant: the table has no row for manage_teams.
Actions_noManageTeams ==
    {"view_all_requests", "view_own_requests", "create_request",
     "update_request_stage", "delete_request", "add_notes",
     "add_instructions", "add_worksheet", "manage_equipment",
     "manage_workcenters", "change_user_roles"}

Actions ==
    {"view_all_requests", "view_own_requests", "create_request",
     "update_request_stage", "delete_request", "add_notes",
     "add_instructions", "add_worksheet", "manage_equipment",
     "manage_workcenters", "manage_teams", "change_user_roles"}

(* ------------------------------------------------------------------ *)
(* Permission matrix, backend (server.js) and frontend (permissions.js) *)
(* ------------------------------------------------------------------ *)
\* Faulty variant of the table: the add_worksheet row does not list ADMIN.
permissions_noAdminRow ==
    [a \in Actions |->
        CASE a = "view_all_requests"    -> {"ADMIN", "MANAGER"}
          [] a = "view_own_requests"    -> {"ADMIN", "MANAGER", "TECHNICIAN", "EMPLOYEE"}
          [] a = "create_request"       -> {"ADMIN", "MANAGER", "EMPLOYEE"}
          [] a = "update_request_stage" -> {"ADMIN", "MANAGER", "TECHNICIAN"}
          [] a = "delete_request"       -> {"ADMIN", "MANAGER"}
          [] a = "add_notes"            -> {"ADMIN", "MANAGER", "EMPLOYEE"}
          [] a = "add_instructions"     -> {"ADMIN", "MANAGER"}
          [] a = "add_worksheet"        -> {}
          [] a = "manage_equipment"     -> {"ADMIN", "MANAGER"}
          [] a = "manage_workcenters"   -> {"ADMIN", "MANAGER"}
          [] a = "manage_teams"         -> {"ADMIN", "MANAGER"}
          [] a = "change_user_roles"    -> {"ADMIN"}]

\* The object literal `permissions`; its own keys are the function's domain.
permissions ==
    [a \in Actions |->
        CASE a = "view_all_requests"    -> {"ADMIN", "MANAGER"}
          [] a = "view_own_requests"    -> {"ADMIN", "MANAGER", "TECHNICIAN", "EMPLOYEE"}
          [] a = "create_request"       -> {"ADMIN", "MANAGER", "EMPLOYEE"}
          [] a = "update_request_stage" -> {"ADMIN", "MANAGER", "TECHNICIAN"}
          [] a = "delete_request"       -> {"ADMIN", "MANAGER"}
          [] a = "add_notes"            -> {"ADMIN", "MANAGER", "EMPLOYEE"}
          [] a = "add_instructions"     -> {"ADMIN", "MANAGER"}
          [] a = "add_worksheet"        -> {"ADMIN"}
          [] a = "manage_equipment"     -> {"ADMIN", "MANAGER"}
          [] a = "manage_workcenters"   -> {"ADMIN", "MANAGER"}
          [] a = "manage_teams"         -> {"ADMIN", "MANAGER"}
          [] a = "change_user_roles"    -> {"ADMIN"}]

\* Names every object literal inherits from Object.prototype: reading
\* permissions[name] for one of them yields a value that is truthy and is
\* no array, so calling .includes on it throws a TypeError.
ObjectPrototypeKeys ==
    {"toString", "constructor", "hasOwnProperty", "valueOf", "__proto__"}

\* table[key] of an object literal whose own keys are DOMAIN table.
PropertyRead(table, key) ==
    IF key \in DOMAIN table THEN [kind |-> "array", items |-> table[key]]
    ELSE IF key \in ObjectPrototypeKeys THEN [kind |-> "inherited", items |-> {}]
    ELSE [kind |-> "undefined", items |-> {}]

\* Outcomes of a call: the boolean returned, or the exception thrown.
JSTrue == "true"
JSFalse == "false"
TypeError == "TypeError"
Bool(b) == IF b THEN JSTrue ELSE JSFalse

\* Faulty variants of hasPermission: no ADMIN early return; a missing
\* role defaults to a role.
hasPermission_noBypass(userProfile, action) ==
    IF ~IsObject(userProfile) THEN JSFalse
    ELSE IF ~Truthy(userProfile.role) THEN JSFalse
    ELSE LET role == userProfile.role
             allowedRoles == PropertyRead(permissions, action)
         IN  IF allowedRoles.kind = "undefined" THEN JSFalse
             ELSE IF allowedRoles.kind = "array"
                  THEN Bool(role \in allowedRoles.items)
                  ELSE TypeError

hasPermission_defaultRole(userProfile, action) ==
    IF ~IsObject(userProfile) THEN JSFalse
    ELSE LET role == IF Truthy(userProfile.role) THEN userProfile.role
                     ELSE "EMPLOYEE"
             allowedRoles == PropertyRead(permissions, action)
         IN  IF role = "ADMIN" THEN JSTrue
             ELSE IF allowedRoles.kind = "undefined" THEN JSFalse
             ELSE IF allowedRoles.kind = "array"
                  THEN Bool(role \in allowedRoles.items)
                  ELSE TypeError

\* server.js hasPermission(userProfile, action).
hasPermission(userProfile, action) ==
    IF ~IsObject(userProfile) THEN JSFalse
    ELSE IF ~Truthy(userProfile.role) THEN JSFalse
    ELSE LET role == userProfile.role
             allowedRoles == PropertyRead(permissions, action)
         IN  IF role = "ADMIN" THEN JSTrue
             ELSE IF allowedRoles.kind = "undefined" THEN JSFalse
             ELSE IF allowedRoles.kind = "array"
                  THEN Bool(role \in allowedRoles.items)
                  ELSE TypeError

\* permissions.js: the same table and function, written out a second time.
\* Faulty variant: the copy of the table lets a TECHNICIAN delete requests.
frontend_permissions_technicianDeletes ==
    [a \in Actions |->
        CASE a = "view_all_requests"    -> {"ADMIN", "MANAGER"}
          [] a = "view_own_requests"    -> {"ADMIN", "MANAGER", "TECHNICIAN", "EMPLOYEE"}
          [] a = "create_request"       -> {"ADMIN", "MANAGER", "EMPLOYEE"}
          [] a = "update_request_stage" -> {"ADMIN", "MANAGER", "TECHNICIAN"}
          [] a = "delete_request"       -> {"ADMIN", "MANAGER", "TECHNICIAN"}
          [] a = "add_notes"            -> {"ADMIN", "MANAGER", "EMPLOYEE"}
          [] a = "add_instructions"     -> {"ADMIN", "MANAGER"}
          [] a = "add_worksheet"        -> {"ADMIN"}
          [] a = "manage_equipment"     -> {"ADMIN", "MANAGER"}
          [] a = "manage_workcenters"   -> {"ADMIN", "MANAGER"}
          [] a = "manage_teams"         -> {"ADMIN", "MANAGER"}
          [] a = "change_user_roles"    -> {"ADMIN"}]

frontend_permissions ==
    [a \in Actions |->
        CASE a = "view_all_requests"    -> {"ADMIN", "MANAGER"}
          [] a = "view_own_requests"    -> {"ADMIN", "MANAGER", "TECHNICIAN", "EMPLOYEE"}
          [] a = "create_request"       -> {"ADMIN", "MANAGER", "EMPLOYEE"}
          [] a = "update_request_stage" -> {"ADMIN", "MANAGER", "TECHNICIAN"}
          [] a = "delete_request"       -> {"ADMIN", "MANAGER"}
          [] a = "add_notes"            -> {"ADMIN", "MANAGER", "EMPLOYEE"}
          [] a = "add_instructions"     -> {"ADMIN", "MANAGER"}
          [] a = "add_worksheet"        -> {"ADMIN"}
          [] a = "manage_equipment"     -> {"ADMIN", "MANAGER"}
          [] a = "manage_workcenters"   -> {"ADMIN", "MANAGER"}
          [] a = "manage_teams"         -> {"ADMIN", "MANAGER"}
          [] a = "change_user_roles"    -> {"ADMIN"}]

frontend_hasPermission(user, action) ==
    IF ~IsObject(user) THEN JSFalse
    ELSE IF ~Truthy(user.role) THEN JSFalse
    ELSE LET role == user.role
             allowedRoles == PropertyRead(frontend_permissions, action)
         IN  IF role = "ADMIN" THEN JSTrue
             ELSE IF allowedRoles.kind = "undefined" THEN JSFalse
             ELSE IF allowedRoles.kind = "array"
                  THEN Bool(role \in allowedRoles.items)
                  ELSE TypeError

(* ------------------------------------------------------------------ *)
(* State                                                                *)
(* ------------------------------------------------------------------ *)
VARIABLES
    profiles,   \* table profiles: user id -> stored role
    requests,   \* table maintenance_requests: id -> row
    history,    \* table request_stage_history, in insertion order
    notes,      \* table request_notes, in insertion order
    instructions, \* table request_instructions, in insertion order
    worksheet,  \* table request_worksheet_comments, in insertion order
    equipment,  \* table equipment: the ids of its rows
    workcenters, \* table workcenters: the ids of its rows
    teams,      \* table teams: the ids of its rows
    team_members, \* table team_members, in insertion order
    page,       \* the Teams and Work Centers pages of one browser
    serial,     \* the last id the sequence of maintenance_requests gave out
    http,       \* the HTTP requests being served, one per slot
    started,    \* number of HTTP requests accepted so far
    permCall    \* the last direct evaluation of hasPermission

vars == <<profiles, requests, history, notes, instructions, worksheet,
          equipment, workcenters, teams, team_members, page, serial, http,
          started, permCall>>

\* The tables the routes on the rows of maintenance_requests, their
\* history and notes never access, and the pages, which no route accesses.
otherTables == <<instructions, worksheet, equipment, workcenters, teams,
                 team_members, page, serial>>

\* Two HTTP requests are served at a time: a request and one request
\* whose store accesses interleave with its own.
Slots == {1, 2}
RequestIds == 1 .. NumRequests

\* Accounts with a profile row.  "guest" is a row whose role column was
\* never set; "tech2" owns work but sends no request in this model.
\* "orphan" has an account of the identity provider and no profile row;
\* "newcomer" has no account yet.
Users == {"adm", "mgr", "tech", "tech2", "emp", "guest", "orphan", "newcomer"}
NoToken == "<no bearer token>"
NoProfile == "<no profile row>"
\* Who sends HTTP requests: five accounts and an anonymous caller.
Callers == {"adm", "mgr", "tech", "emp", "guest", NoToken}

\* req.body of the requests sent to the stage route.
StageBodies ==
    {[stage |-> "IN_PROGRESS", blocked |-> FALSE],
     [stage |-> "REPAIRED", blocked |-> TRUE]}

InitProfiles ==
    [u \in Users |->
        CASE u = "adm"   -> "ADMIN"
          [] u = "mgr"   -> "MANAGER"
          [] u = "tech"  -> "TECHNICIAN"
          [] u = "tech2" -> "TECHNICIAN"
          [] u = "emp"   -> "EMPLOYEE"
          [] u = "guest" -> JSNull
          [] OTHER       -> NoProfile]

\* Row i as POST /api/requests stores it: stage NEW_REQUEST, not blocked.
InitRow(i) ==
    [id |-> i,
     created_by_user_id |-> IF i % 2 = 1 THEN "emp" ELSE "mgr",
     technician_id |-> IF i = 1 THEN "tech" ELSE IF i = 2 THEN "tech2" ELSE JSNull,
     stage |-> "NEW_REQUEST",
     blocked |-> FALSE]

IdleSlot ==
    [pc |-> "idle", op |-> "none", token |-> NoToken, id |-> 0,
     stage |-> JSUndefined, blocked |-> FALSE,
     userProfile |-> NoUser, canViewAll |-> FALSE,
     current |-> JSUndefined, status |-> 0, rows |-> {},
     target |-> "", role |-> JSUndefined, created_by |-> JSUndefined,
     signins |-> 0, responses |-> 0,
     name |-> JSUndefined, member_ids |-> << >>]

NoCall == [tier |-> "none", user |-> NoUser, action |-> "", result |-> JSFalse]

\* The store and the server before the first request, but for the profiles.
\* The pages with a create modal.  A page after its first render: the
\* modal closed, the form empty, no message, no submit running and no
\* timer set.  Of the form its name field is kept, the one handleSubmit
\* inspects; submit is the position of the running handleSubmit.
Pages == {"Teams", "WorkCenters"}
InitPage ==
    [isModalOpen |-> FALSE, form |-> [name |-> ""], err |-> "", msg |-> "",
     isLoading |-> FALSE, submit |-> "none", timers |-> 0]

InitOthers ==
    /\ requests = [i \in RequestIds |-> InitRow(i)]
    /\ history = << >>
    /\ notes = << >>
    /\ instructions = << >>
    /\ worksheet = << >>
    /\ equipment = {1}
    /\ workcenters = {1}
    /\ teams = {1}
    /\ team_members = << >>
    /\ page = [p \in Pages |-> InitPage]
    /\ serial = NumRequests
    /\ http = [s \in Slots |-> IdleSlot]
    /\ started = 0
    /\ permCall = NoCall

Init ==
    /\ profiles = InitProfiles
    /\ InitOthers

\* A store in which every profile row carries a role: the row of "guest"
\* does not exist.
InitUsers ==
    /\ profiles = [u \in Users |-> IF InitProfiles[u] = JSNull THEN NoProfile
                                   ELSE InitProfiles[u]]
    /\ InitOthers

(* ------------------------------------------------------------------ *)
(* Direct evaluation of hasPermission on enumerated inputs              *)
(* ------------------------------------------------------------------ *)
RoleInputs == Roles \cup {"VIEWER", "", JSNull, JSUndefined}
UserInputs == {NoUser, UndefUser} \cup {UserObject("u", r) : r \in RoleInputs}
\* The twelve actions of the table and names that have no row in it.
ActionInputs == Actions \cup {"export_report", "toString", "constructor"}

\* What a call hasPermission(userProfile, action) of server.js writes to
\* the console: the function holds no console statement.
hasPermission_console(userProfile, action) == << >>

\* A call hasPermission(user, action) of server.js and its outcome.
EvalBackend(user, action) ==
    /\ permCall' = [tier |-> "backend", user |-> user, action |-> action,
                    result |-> hasPermission(user, action)]
    /\ UNCHANGED <<profiles, requests, history, notes, http, started, otherTables>>

\* A call hasPermission(user, action) of permissions.js and its outcome.
EvalFrontend(user, action) ==
    /\ permCall' = [tier |-> "frontend", user |-> user, action |-> action,
                    result |-> frontend_hasPermission(user, action)]
    /\ UNCHANGED <<profiles, requests, history, notes, http, started, otherTables>>

NextPerm ==
    \/ \E u \in UserInputs, a \in ActionInputs : EvalBackend(u, a)
    \/ \E u \in UserInputs, a \in ActionInputs : EvalFrontend(u, a)

SpecPerm == Init /\ [][NextPerm]_vars

(* ------------------------------------------------------------------ *)
(* Middleware                                                           *)
(* ------------------------------------------------------------------ *)
\* Faulty variant: the profile is read once, when the server starts, and
\* kept.
getUserProfile_cached(token) ==
    IF token = NoToken THEN NoUser
    ELSE IF token \notin DOMAIN InitProfiles THEN NoUser
    ELSE IF InitProfiles[token] = NoProfile THEN NoUser
    ELSE UserObject(token, InitProfiles[token])

\* getUserProfile(req): the actor of a bearer token, read from profiles.
getUserProfile(token) ==
    IF token = NoToken THEN NoUser
    ELSE IF token \notin DOMAIN profiles THEN NoUser
    ELSE IF profiles[token] = NoProfile THEN NoUser
    ELSE UserObject(token, profiles[token])

\* Outcome of a middleware: next() is called, a status is sent, or the
\* async function rejects and no response is ever sent.
CallNext == "next"
Thrown == "throw"

\* Faulty variant: a request without an actor is answered like a denied one.
requirePermission_forbidsAnonymous(action, userProfile) ==
    IF ~IsObject(userProfile) THEN "403"
    ELSE LET allowed == hasPermission(userProfile, action)
         IN  IF allowed = TypeError THEN Thrown
             ELSE IF allowed # JSTrue THEN "403"
             ELSE CallNext

\* Faulty variant: the answer 403 is missing, every resolved actor passes.
requirePermission_noForbidden(action, userProfile) ==
    IF ~IsObject(userProfile) THEN "401"
    ELSE LET allowed == hasPermission(userProfile, action)
         IN  IF allowed = TypeError THEN Thrown
             ELSE CallNext

requirePermission(action, userProfile) ==
    IF ~IsObject(userProfile) THEN "401"
    ELSE LET allowed == hasPermission(userProfile, action)
         IN  IF allowed = TypeError THEN Thrown
             ELSE IF allowed # JSTrue THEN "403"
             ELSE CallNext

\* Faulty variant: an actor with neither view action falls through to next().
requireRequestAccess_fallThrough(userProfile) ==
    IF ~IsObject(userProfile) THEN [outcome |-> "401", canViewAll |-> FALSE]
    ELSE IF hasPermission(userProfile, "view_all_requests") = JSTrue
         THEN [outcome |-> CallNext, canViewAll |-> TRUE]
    ELSE [outcome |-> CallNext, canViewAll |-> FALSE]

requireRequestAccess(userProfile) ==
    IF ~IsObject(userProfile) THEN [outcome |-> "401", canViewAll |-> FALSE]
    ELSE IF hasPermission(userProfile, "view_all_requests") = JSTrue
         THEN [outcome |-> CallNext, canViewAll |-> TRUE]
    ELSE IF hasPermission(userProfile, "view_own_requests") = JSTrue
         THEN [outcome |-> CallNext, canViewAll |-> FALSE]
    ELSE [outcome |-> "403", canViewAll |-> FALSE]

StatusOf(outcome) ==
    CASE outcome = "401" -> 401
      [] outcome = "403" -> 403
      [] OTHER -> 0

\* The slot of a request that has passed (or failed) its middleware;
\* userProfile is the actor the middleware resolved.  The parameters of a
\* request its middleware rejects are never read and are not kept.
Accepted(op, token, id, stage, blocked, userProfile, canViewAll, outcome, first) ==
    [pc |-> IF outcome = CallNext THEN first
            ELSE IF outcome = Thrown THEN "hung" ELSE "done",
     op |-> op, token |-> token,
     id |-> IF outcome = CallNext THEN id ELSE 0,
     stage |-> IF outcome = CallNext THEN stage ELSE JSUndefined,
     blocked |-> IF outcome = CallNext THEN blocked ELSE FALSE,
     userProfile |-> userProfile,
     canViewAll |-> canViewAll,
     current |-> JSUndefined, status |-> StatusOf(outcome), rows |-> {},
     target |-> "", role |-> JSUndefined, created_by |-> JSUndefined,
     signins |-> 0, responses |-> 0,
     name |-> JSUndefined, member_ids |-> << >>]

Respond(s, status, rows) ==
    http' = [http EXCEPT ![s].pc = "done", ![s].status = status, ![s].rows = rows,
                         ![s].current = JSUndefined]

Goto(s, pc) == http' = [http EXCEPT ![s].pc = pc]

\* data of select(...).eq('id', id).single(): the row, or null (with an
\* error) when no row has the id.
NoRow ==
    [id |-> 0, created_by_user_id |-> JSNull, technician_id |-> JSNull,
     stage |-> JSNull, blocked |-> FALSE]
SelectSingle(id) ==
    IF id \in DOMAIN requests THEN requests[id] ELSE NoRow
Found(row) == row.id # 0

\* A row as a response carries it; of its columns the id and the two
\* ownership columns are kept.
Returned(row) ==
    [id |-> row.id, created_by_user_id |-> row.created_by_user_id,
     technician_id |-> row.technician_id]

\* A new request is served by the first slot whose request has been
\* answered; which slot serves a request has no effect on the program.
Answered(s) == http[s].pc \in {"idle", "done"}
Free(s) ==
    /\ Answered(s)
    /\ \A r \in Slots : r < s => ~Answered(r)

(* ------------------------------------------------------------------ *)
(* GET /api/requests                                                    *)
(* ------------------------------------------------------------------ *)
ListRequest(s, token) ==
    /\ Free(s) /\ started < MaxOps
    /\ LET userProfile == getUserProfile(token)
           access == requireRequestAccess(userProfile)
       IN  http' = [http EXCEPT ![s] =
                Accepted("list", token, 0, JSUndefined, FALSE, userProfile,
                         access.canViewAll, access.outcome, "list_query")]
    /\ started' = started + 1
    /\ UNCHANGED <<profiles, requests, history, notes, permCall, otherTables>>

\* Faulty variant: the EMPLOYEE branch of the filter is missing.
ListFilter_noEmployeeFilter(userProfile, canViewAll, row) ==
    IF ~canViewAll
    THEN IF userProfile.role = "TECHNICIAN" THEN row.technician_id = userProfile.id
         ELSE TRUE
    ELSE TRUE

\* Faulty variant: callers that may view all are filtered by creator.
ListFilter_alwaysOwn(userProfile, canViewAll, row) ==
    IF userProfile.role = "TECHNICIAN" THEN row.technician_id = userProfile.id
    ELSE row.created_by_user_id = userProfile.id

\* The .eq() filters added to the query of GET /api/requests.
ListFilter(userProfile, canViewAll, row) ==
    IF ~canViewAll
    THEN IF userProfile.role = "TECHNICIAN" THEN row.technician_id = userProfile.id
         ELSE IF userProfile.role = "EMPLOYEE"
              THEN row.created_by_user_id = userProfile.id
         ELSE TRUE
    ELSE TRUE

ListQuery(s) ==
    /\ http[s].pc = "list_query"
    /\ Respond(s, 200,
            {Returned(requests[i]) : i \in {j \in DOMAIN requests :
                ListFilter(http[s].userProfile, http[s].canViewAll, requests[j])}})
    /\ UNCHANGED <<profiles, requests, history, notes, started, permCall, otherTables>>

(* ------------------------------------------------------------------ *)
(* GET /api/requests/:id/details                                        *)
(* ------------------------------------------------------------------ *)
DetailsRequest(s, token, id) ==
    /\ Free(s) /\ started < MaxOps
    /\ LET userProfile == getUserProfile(token)
           access == requireRequestAccess(userProfile)
       IN  http' = [http EXCEPT ![s] =
                Accepted("details", token, id, JSUndefined, FALSE, userProfile,
                         access.canViewAll, access.outcome, "details_check")]
    /\ started' = started + 1
    /\ UNCHANGED <<profiles, requests, history, notes, permCall, otherTables>>

\* The two 403 branches of the access check of the details handler.
DetailsDenied(userProfile, canViewAll, requestData) ==
    /\ ~canViewAll
    /\ \/ userProfile.role = "TECHNICIAN" /\ requestData.technician_id # userProfile.id
       \/ userProfile.role = "EMPLOYEE" /\ requestData.created_by_user_id # userProfile.id

DetailsCheck(s) ==
    /\ http[s].pc = "details_check"
    /\ LET requestData == SelectSingle(http[s].id)
       IN  IF ~Found(requestData) THEN Respond(s, 400, {})
           ELSE IF DetailsDenied(http[s].userProfile, http[s].canViewAll, requestData)
                THEN Respond(s, 403, {})
           ELSE Goto(s, "details_read")
    /\ UNCHANGED <<profiles, requests, history, notes, started, permCall, otherTables>>

\* The Promise.all of the four reads; the response carries the request row.
DetailsRead(s) ==
    /\ http[s].pc = "details_read"
    /\ LET request == SelectSingle(http[s].id)
       IN  IF ~Found(request) THEN Respond(s, 400, {})
           ELSE Respond(s, 200, {Returned(request)})
    /\ UNCHANGED <<profiles, requests, history, notes, started, permCall, otherTables>>

(* ------------------------------------------------------------------ *)
(* PUT /api/requests/:id/stage                                          *)
(* ------------------------------------------------------------------ *)
StageRequest(s, token, id, stage, blocked) ==
    /\ Free(s) /\ started < MaxOps
    /\ LET userProfile == getUserProfile(token)
           outcome == requirePermission("update_request_stage", userProfile)
       IN  http' = [http EXCEPT ![s] =
                Accepted("stage", token, id, stage, blocked, userProfile, FALSE,
                         outcome,
                         IF userProfile.role = "TECHNICIAN" THEN "stage_owner"
                         ELSE "stage_current")]
    /\ started' = started + 1
    /\ UNCHANGED <<profiles, requests, history, notes, permCall, otherTables>>

\* Faulty variant: a request that is not found passes the check.
StageDenied_missingPasses(userProfile, request) ==
    Found(request) /\ request.technician_id # userProfile.id

\* !request || request.technician_id !== userProfile.id
StageDenied(userProfile, request) ==
    ~Found(request) \/ request.technician_id # userProfile.id

StageOwner(s) ==
    /\ http[s].pc = "stage_owner"
    /\ LET request == SelectSingle(http[s].id)
       IN  IF StageDenied(http[s].userProfile, request)
           THEN Respond(s, 403, {})
           ELSE Goto(s, "stage_current")
    /\ UNCHANGED <<profiles, requests, history, notes, started, permCall, otherTables>>

StageCurrent(s) ==
    /\ http[s].pc = "stage_current"
    /\ LET current == SelectSingle(http[s].id)
       IN  http' = [http EXCEPT ![s].pc = "stage_update",
                                ![s].current = current.stage]
    /\ UNCHANGED <<profiles, requests, history, notes, started, permCall, otherTables>>

\* Faulty variant: the update also assigns the row to the caller.
StageUpdate_reassigns(s, ok) ==
    /\ http[s].pc = "stage_update"
    /\ IF ok /\ http[s].id \in DOMAIN requests
       THEN /\ requests' = [requests EXCEPT ![http[s].id].stage = http[s].stage,
                                            ![http[s].id].blocked = http[s].blocked,
                                            ![http[s].id].technician_id =
                                                    http[s].userProfile.id]
            /\ Goto(s, "stage_history")
       ELSE /\ Respond(s, 400, {})
            /\ UNCHANGED requests
    /\ UNCHANGED <<profiles, history, notes, started, permCall, otherTables>>

\* Faulty variant: a failed update is not answered and the handler goes on
\* to the audit insert.
StageUpdate_ignoresError(s, ok) ==
    /\ http[s].pc = "stage_update"
    /\ IF ok /\ http[s].id \in DOMAIN requests
       THEN requests' = [requests EXCEPT ![http[s].id].stage = http[s].stage,
                                         ![http[s].id].blocked = http[s].blocked]
       ELSE UNCHANGED requests
    /\ Goto(s, "stage_history")
    /\ UNCHANGED <<profiles, history, notes, started, permCall, otherTables>>

\* update({stage, blocked}).eq('id', id).select().single(): an error when
\* the store fails or no row has the id.
StageUpdate(s, ok) ==
    /\ http[s].pc = "stage_update"
    /\ IF ok /\ http[s].id \in DOMAIN requests
       THEN /\ requests' = [requests EXCEPT ![http[s].id].stage = http[s].stage,
                                            ![http[s].id].blocked = http[s].blocked]
            /\ Goto(s, "stage_history")
       ELSE /\ Respond(s, 400, {})
            /\ UNCHANGED requests
    /\ UNCHANGED <<profiles, history, notes, started, permCall, otherTables>>

HistoryRow(slot) ==
    [request_id |-> slot.id,
     from_stage |-> IF Truthy(slot.current) THEN slot.current ELSE JSNull,
     to_stage |-> slot.stage,
     changed_by_user_id |-> slot.userProfile.id]

\* The insert into request_stage_history; its result is not inspected.
StageHistory(s, ok) ==
    /\ http[s].pc = "stage_history"
    /\ history' = IF ok THEN Append(history, HistoryRow(http[s])) ELSE history
    /\ Respond(s, 200, {})
    /\ UNCHANGED <<profiles, requests, notes, started, permCall, otherTables>>

(* ------------------------------------------------------------------ *)
(* POST /api/requests/:id/notes                                         *)
(* ------------------------------------------------------------------ *)
NotesRequest(s, token, id) ==
    /\ Free(s) /\ started < MaxOps
    /\ LET userProfile == getUserProfile(token)
           outcome == requirePermission("add_notes", userProfile)
       IN  http' = [http EXCEPT ![s] =
                Accepted("notes", token, id, JSUndefined, FALSE, userProfile, FALSE,
                         outcome,
                         IF userProfile.role = "EMPLOYEE" THEN "notes_owner"
                         ELSE "notes_insert")]
    /\ started' = started + 1
    /\ UNCHANGED <<profiles, requests, history, notes, permCall, otherTables>>

\* Faulty variant: the creator comparison is missing.
NotesDenied_existsOnly(userProfile, request) ==
    ~Found(request)

\* !request || request.created_by_user_id !== userProfile.id
NotesDenied(userProfile, request) ==
    ~Found(request) \/ request.created_by_user_id # userProfile.id

NotesOwner(s) ==
    /\ http[s].pc = "notes_owner"
    /\ LET request == SelectSingle(http[s].id)
       IN  IF NotesDenied(http[s].userProfile, request)
           THEN Respond(s, 403, {})
           ELSE Goto(s, "notes_insert")
    /\ UNCHANGED <<profiles, requests, history, notes, started, permCall, otherTables>>

NotesInsert(s, ok) ==
    /\ http[s].pc = "notes_insert"
    /\ IF ok
       THEN /\ notes' = Append(notes, [request_id |-> http[s].id,
                                       created_by_user_id |-> http[s].userProfile.id])
            /\ Respond(s, 200, {})
       ELSE /\ Respond(s, 400, {})
            /\ UNCHANGED notes
    /\ UNCHANGED <<profiles, requests, history, started, permCall, otherTables>>

(* ------------------------------------------------------------------ *)
(* DELETE /api/requests/:id                                             *)
(* ------------------------------------------------------------------ *)
DeleteRequest(s, token, id) ==
    /\ Free(s) /\ started < MaxOps
    /\ LET userProfile == getUserProfile(token)
           outcome == requirePermission("delete_request", userProfile)
       IN  http' = [http EXCEPT ![s] =
                Accepted("delete", token, id, JSUndefined, FALSE, userProfile, FALSE,
                         outcome, "delete_row")]
    /\ started' = started + 1
    /\ UNCHANGED <<profiles, requests, history, notes, permCall, otherTables>>

\* Faulty variant: the delete also removes the audit entries of the row.
DeleteRow_cascade(s, ok) ==
    /\ http[s].pc = "delete_row"
    /\ IF ok
       THEN /\ requests' = [i \in DOMAIN requests \ {http[s].id} |-> requests[i]]
            /\ history' = SelectSeq(history, LAMBDA h : h.request_id # http[s].id)
            /\ Respond(s, 200, {})
       ELSE /\ Respond(s, 400, {})
            /\ UNCHANGED <<requests, history>>
    /\ UNCHANGED <<profiles, notes, started, permCall, otherTables>>

\* delete().eq('id', id): deleting no row is no error.
DeleteRow(s, ok) ==
    /\ http[s].pc = "delete_row"
    /\ IF ok
       THEN /\ requests' = [i \in DOMAIN requests \ {http[s].id} |-> requests[i]]
            /\ Respond(s, 200, {})
       ELSE /\ Respond(s, 400, {})
            /\ UNCHANGED requests
    /\ UNCHANGED <<profiles, history, notes, started, permCall, otherTables>>

(* ------------------------------------------------------------------ *)
(* Wiring of the guarded routes                                         *)
(* ------------------------------------------------------------------ *)
\* The action each route hands to requirePermission(action).
BackendWiring ==
    [route \in {"POST /api/equipment", "PUT /api/equipment/:id",
                "DELETE /api/equipment/:id", "POST /api/requests",
                "PUT /api/requests/:id/stage", "POST /api/requests/:id/notes",
                "POST /api/requests/:id/instructions",
                "POST /api/requests/:id/worksheet", "DELETE /api/requests/:id",
                "GET /api/workcenters", "POST /api/workcenters",
                "GET /api/teams", "POST /api/teams",
                "PUT /api/users/:id/role", "GET /api/users"} |->
        CASE route \in {"POST /api/equipment", "PUT /api/equipment/:id",
                        "DELETE /api/equipment/:id"} -> "manage_equipment"
          [] route = "POST /api/requests" -> "create_request"
          [] route = "PUT /api/requests/:id/stage" -> "update_request_stage"
          [] route = "POST /api/requests/:id/notes" -> "add_notes"
          [] route = "POST /api/requests/:id/instructions" -> "add_instructions"
          [] route = "POST /api/requests/:id/worksheet" -> "add_worksheet"
          [] route = "DELETE /api/requests/:id" -> "delete_request"
          [] route \in {"GET /api/workcenters", "POST /api/workcenters"}
                -> "manage_workcenters"
          [] route \in {"GET /api/teams", "POST /api/teams"} -> "manage_teams"
          [] route \in {"PUT /api/users/:id/role", "GET /api/users"}
                -> "change_user_roles"]

\* The route behind each operation name of this model.
Route ==
    [op \in {"create", "stage", "notes", "instructions", "worksheet", "delete",
             "role", "workcenters", "teams", "create_team"} |->
        CASE op = "create" -> "POST /api/requests"
          [] op = "stage" -> "PUT /api/requests/:id/stage"
          [] op = "notes" -> "POST /api/requests/:id/notes"
          [] op = "instructions" -> "POST /api/requests/:id/instructions"
          [] op = "worksheet" -> "POST /api/requests/:id/worksheet"
          [] op = "delete" -> "DELETE /api/requests/:id"
          [] op = "role" -> "PUT /api/users/:id/role"
          [] op = "workcenters" -> "GET /api/workcenters"
          [] op = "teams" -> "GET /api/teams"
          [] op = "create_team" -> "POST /api/teams"]

\* Faulty variant: the worksheet route is guarded with the action of the
\* notes route.
WiredAction_worksheetAsNotes(op) ==
    IF op = "worksheet" THEN "add_notes" ELSE BackendWiring[Route[op]]

WiredAction(op) == BackendWiring[Route[op]]

\* A bearer token the identity provider does not accept.
BadToken == "<invalid token>"
\* Callers of the routes below: the accounts, the account without a
\* profile row, and callers without an acceptable token.
AllCallers == Callers \cup {"orphan", BadToken}

(* ------------------------------------------------------------------ *)
(* POST /api/requests                                                   *)
(* ------------------------------------------------------------------ *)
\* req.body.created_by_user_id: absent, or the id of another account.
CreateBodies == {JSUndefined, "mgr"}

CreateRequest(s, token, createdBy) ==
    /\ Free(s) /\ started < MaxOps
    /\ LET userProfile == getUserProfile(token)
           outcome == requirePermission(WiredAction("create"), userProfile)
           slot == Accepted("create", token, 0, JSUndefined, FALSE, userProfile,
                            FALSE, outcome, "create_insert")
       IN  http' = [http EXCEPT ![s] =
                IF outcome = CallNext THEN [slot EXCEPT !.created_by = createdBy]
                ELSE slot]
    /\ started' = started + 1
    /\ UNCHANGED <<profiles, requests, history, notes, permCall, otherTables>>

\* The row the insert stores; the body of this model names no technician
\* and no stage.
CreatedRow(slot, id) ==
    [id |-> id,
     created_by_user_id |-> IF Truthy(slot.created_by) THEN slot.created_by
                            ELSE slot.userProfile.id,
     technician_id |-> JSNull,
     stage |-> "NEW_REQUEST",
     blocked |-> FALSE]

CreateInsert(s, ok) ==
    /\ http[s].pc = "create_insert"
    /\ IF ok
       THEN LET row == CreatedRow(http[s], serial + 1)
            IN  /\ requests' = [i \in DOMAIN requests \cup {row.id} |->
                                    IF i = row.id THEN row ELSE requests[i]]
                /\ serial' = serial + 1
                /\ Respond(s, 200, {Returned(row)})
       ELSE /\ Respond(s, 400, {})
            /\ UNCHANGED <<requests, serial>>
    /\ UNCHANGED <<profiles, history, notes, started, permCall,
                   instructions, worksheet, equipment, workcenters, teams,
                   team_members, page>>

(* ------------------------------------------------------------------ *)
(* POST /api/requests/:id/instructions and /worksheet                   *)
(* ------------------------------------------------------------------ *)
InstructionsRequest(s, token, id) ==
    /\ Free(s) /\ started < MaxOps
    /\ LET userProfile == getUserProfile(token)
           outcome == requirePermission(WiredAction("instructions"), userProfile)
       IN  http' = [http EXCEPT ![s] =
                Accepted("instructions", token, id, JSUndefined, FALSE, userProfile,
                         FALSE, outcome, "instructions_insert")]
    /\ started' = started + 1
    /\ UNCHANGED <<profiles, requests, history, notes, permCall, otherTables>>

\* The row both inserts store: the request and the author.
CommentRow(slot) ==
    [request_id |-> slot.id, created_by_user_id |-> slot.userProfile.id]

InstructionsInsert(s, ok) ==
    /\ http[s].pc = "instructions_insert"
    /\ IF ok
       THEN /\ instructions' = Append(instructions, CommentRow(http[s]))
            /\ Respond(s, 200, {})
       ELSE /\ Respond(s, 400, {})
            /\ UNCHANGED instructions
    /\ UNCHANGED <<profiles, requests, history, notes, started, permCall,
                   worksheet, equipment, workcenters, teams, team_members, page,
                   serial>>

WorksheetRequest(s, token, id) ==
    /\ Free(s) /\ started < MaxOps
    /\ LET userProfile == getUserProfile(token)
           outcome == requirePermission(WiredAction("worksheet"), userProfile)
       IN  http' = [http EXCEPT ![s] =
                Accepted("worksheet", token, id, JSUndefined, FALSE, userProfile,
                         FALSE, outcome, "worksheet_insert")]
    /\ started' = started + 1
    /\ UNCHANGED <<profiles, requests, history, notes, permCall, otherTables>>

WorksheetInsert(s, ok) ==
    /\ http[s].pc = "worksheet_insert"
    /\ IF ok
       THEN /\ worksheet' = Append(worksheet, CommentRow(http[s]))
            /\ Respond(s, 200, {})
       ELSE /\ Respond(s, 400, {})
            /\ UNCHANGED worksheet
    /\ UNCHANGED <<profiles, requests, history, notes, started, permCall,
                   instructions, equipment, workcenters, teams, team_members, page,
                   serial>>

(* ------------------------------------------------------------------ *)
(* PUT /api/users/:id/role                                              *)
(* ------------------------------------------------------------------ *)
\* req.params.id and req.body.role of the requests sent to the route.
RoleTargets == {"adm", "emp", "newcomer"}
RoleBodies == {"EMPLOYEE", "ADMIN", "SUPERUSER"}

\* Faulty variant: the role of a request is not validated.
ValidRole_any(role) == TRUE

\* validRoles.includes(role)
ValidRole(role) == role \in Roles

\* The middleware and, when it calls next(), the validation of the body,
\* which runs before the handler's first await.
RoleRequest(s, token, target, role) ==
    /\ Free(s) /\ started < MaxOps
    /\ LET userProfile == getUserProfile(token)
           outcome == requirePermission(WiredAction("role"), userProfile)
           slot == Accepted("role", token, 0, JSUndefined, FALSE, userProfile,
                            FALSE, outcome, "role_update")
       IN  http' = [http EXCEPT ![s] =
                IF outcome # CallNext THEN slot
                ELSE IF ~ValidRole(role)
                     THEN [slot EXCEPT !.pc = "done", !.status = 400,
                                       !.target = target, !.role = role]
                ELSE [slot EXCEPT !.target = target, !.role = role]]
    /\ started' = started + 1
    /\ UNCHANGED <<profiles, requests, history, notes, permCall, otherTables>>

\* update({ role }).eq('id', userId).select().single(): an error when the
\* store fails or no profile has the id.
RoleUpdate(s, ok) ==
    /\ http[s].pc = "role_update"
    /\ IF ok /\ profiles[http[s].target] # NoProfile
       THEN /\ profiles' = [profiles EXCEPT ![http[s].target] = http[s].role]
            /\ Respond(s, 200, {})
       ELSE /\ Respond(s, 400, {})
            /\ UNCHANGED profiles
    /\ UNCHANGED <<requests, history, notes, started, permCall, otherTables>>

(* ------------------------------------------------------------------ *)
(* Routes registered without a middleware                               *)
(* ------------------------------------------------------------------ *)
\* The slot of a request to a route that has no middleware: the handler
\* runs for every caller and no actor is resolved.
Unguarded(op, token, first) ==
    Accepted(op, token, 0, JSUndefined, FALSE, NoUser, FALSE, CallNext, first)

\* A row of the equipment, workcenters or teams table in a response.
CatalogRow(table, id) == [table |-> table, id |-> id]

\* GET /api/dashboard/summary: the number of rows whose stage is open.
OpenStages == {"NEW_REQUEST", "IN_PROGRESS"}

SummaryRequest(s, token) ==
    /\ Free(s) /\ started < MaxOps
    /\ http' = [http EXCEPT ![s] = Unguarded("summary", token, "summary_query")]
    /\ started' = started + 1
    /\ UNCHANGED <<profiles, requests, history, notes, permCall, otherTables>>

SummaryQuery(s) ==
    /\ http[s].pc = "summary_query"
    /\ Respond(s, 200,
            {[open_requests |->
                Cardinality({i \in DOMAIN requests : requests[i].stage \in OpenStages})]})
    /\ UNCHANGED <<profiles, requests, history, notes, started, permCall, otherTables>>

\* GET /api/dashboard/recent-requests: the newest rows, whoever calls.
RecentLimit == 10

RecentRequest(s, token) ==
    /\ Free(s) /\ started < MaxOps
    /\ http' = [http EXCEPT ![s] = Unguarded("recent", token, "recent_query")]
    /\ started' = started + 1
    /\ UNCHANGED <<profiles, requests, history, notes, permCall, otherTables>>

RecentQuery(s) ==
    /\ http[s].pc = "recent_query"
    /\ Respond(s, 200,
            {Returned(requests[i]) : i \in {j \in DOMAIN requests :
                Cardinality({k \in DOMAIN requests : k > j}) < RecentLimit}})
    /\ UNCHANGED <<profiles, requests, history, notes, started, permCall, otherTables>>

\* GET /api/equipment
EquipmentRequest(s, token) ==
    /\ Free(s) /\ started < MaxOps
    /\ http' = [http EXCEPT ![s] = Unguarded("equipment", token, "equipment_query")]
    /\ started' = started + 1
    /\ UNCHANGED <<profiles, requests, history, notes, permCall, otherTables>>

EquipmentQuery(s) ==
    /\ http[s].pc = "equipment_query"
    /\ Respond(s, 200, {CatalogRow("equipment", i) : i \in equipment})
    /\ UNCHANGED <<profiles, requests, history, notes, started, permCall, otherTables>>

\* GET /api/requests/meta: the equipment, work centers and teams a
\* request form offers.
RequestsMetaRequest(s, token) ==
    /\ Free(s) /\ started < MaxOps
    /\ http' = [http EXCEPT ![s] = Unguarded("requests_meta", token, "meta_query")]
    /\ started' = started + 1
    /\ UNCHANGED <<profiles, requests, history, notes, permCall, otherTables>>

RequestsMetaQuery(s) ==
    /\ http[s].pc = "meta_query"
    /\ Respond(s, 200,
            {CatalogRow("equipment", i) : i \in equipment}
            \cup {CatalogRow("workcenters", i) : i \in workcenters}
            \cup {CatalogRow("teams", i) : i \in teams})
    /\ UNCHANGED <<profiles, requests, history, notes, started, permCall, otherTables>>

(* ------------------------------------------------------------------ *)
(* GET /api/workcenters and GET /api/teams                              *)
(* ------------------------------------------------------------------ *)
WorkcentersRequest(s, token) ==
    /\ Free(s) /\ started < MaxOps
    /\ LET userProfile == getUserProfile(token)
           outcome == requirePermission(WiredAction("workcenters"), userProfile)
       IN  http' = [http EXCEPT ![s] =
                Accepted("workcenters", token, 0, JSUndefined, FALSE, userProfile,
                         FALSE, outcome, "workcenters_query")]
    /\ started' = started + 1
    /\ UNCHANGED <<profiles, requests, history, notes, permCall, otherTables>>

WorkcentersQuery(s) ==
    /\ http[s].pc = "workcenters_query"
    /\ Respond(s, 200, {CatalogRow("workcenters", i) : i \in workcenters})
    /\ UNCHANGED <<profiles, requests, history, notes, started, permCall, otherTables>>

TeamsRequest(s, token) ==
    /\ Free(s) /\ started < MaxOps
    /\ LET userProfile == getUserProfile(token)
           outcome == requirePermission(WiredAction("teams"), userProfile)
       IN  http' = [http EXCEPT ![s] =
                Accepted("teams", token, 0, JSUndefined, FALSE, userProfile,
                         FALSE, outcome, "teams_query")]
    /\ started' = started + 1
    /\ UNCHANGED <<profiles, requests, history, notes, permCall, otherTables>>

TeamsQuery(s) ==
    /\ http[s].pc = "teams_query"
    /\ Respond(s, 200, {CatalogRow("teams", i) : i \in teams})
    /\ UNCHANGED <<profiles, requests, history, notes, started, permCall, otherTables>>

(* ------------------------------------------------------------------ *)
(* POST /api/teams                                                      *)
(* ------------------------------------------------------------------ *)
\* A value of the body that is no string, null or undefined (a number).
NotAString == "<number>"

\* req.body.name and req.body.member_ids of a create-team.  An absent
\* member_ids and an empty array take the same path (1246).
TeamNames == {JSUndefined, "", "  ", " Crew ", NotAString}
TeamMemberIds == {<< >>, <<JSNull, "", " ">>, <<"tech", " ", " emp ">>}

\* String.prototype.trim on the strings above.
trim(str) ==
    CASE str \in {" ", "  "} -> ""
      [] str = " Crew " -> "Crew"
      [] str = " emp " -> "emp"
      [] OTHER -> str

\* Faulty variant: every id of the body becomes a member row.
MembersToInsert_unfiltered(team_id, member_ids) ==
    [i \in 1..Len(member_ids) |-> [team_id |-> team_id, user_id |-> member_ids[i]]]

\* membersToInsert: the ids that are not null and not blank, trimmed,
\* with the id of the new team.
MembersToInsert(team_id, member_ids) ==
    LET kept == SelectSeq(member_ids,
                    LAMBDA id : id \notin {JSNull, JSUndefined} /\ id # ""
                                /\ trim(id) # "")
    IN  [i \in 1..Len(kept) |-> [team_id |-> team_id, user_id |-> trim(kept[i])]]

\* The middleware and the handler up to its first await: a name that is
\* no string has no trim and the catch answers 500.
CreateTeamRequest(s, token, name, member_ids) ==
    /\ Free(s) /\ started < MaxOps
    /\ LET userProfile == getUserProfile(token)
           outcome == requirePermission(WiredAction("create_team"), userProfile)
           slot == Accepted("create_team", token, 0, JSUndefined, FALSE,
                            userProfile, FALSE, outcome, "team_insert")
           body == [slot EXCEPT !.name = name, !.member_ids = member_ids]
       IN  http' = [http EXCEPT ![s] =
                IF outcome # CallNext THEN slot
                ELSE IF ~Truthy(name)
                     THEN [body EXCEPT !.pc = "done", !.status = 400]
                ELSE IF name = NotAString
                     THEN [body EXCEPT !.pc = "done", !.status = 500]
                ELSE IF ~Truthy(trim(name))
                     THEN [body EXCEPT !.pc = "done", !.status = 400]
                ELSE body]
    /\ started' = started + 1
    /\ UNCHANGED <<profiles, requests, history, notes, permCall, otherTables>>

\* insert({name, company}).select(): an error, or no row returned, is
\* answered 400; the row gets the next id of the table, from which no
\* route deletes.
TeamInsert(s, ok) ==
    /\ http[s].pc = "team_insert"
    /\ IF ok
       THEN LET team == [id |-> Cardinality(teams) + 1]
            IN  /\ teams' = teams \cup {team.id}
                /\ IF Len(MembersToInsert(team.id, http[s].member_ids)) > 0
                   THEN http' = [http EXCEPT ![s].pc = "team_members",
                                             ![s].id = team.id]
                   ELSE http' = [http EXCEPT ![s].pc = "done", ![s].status = 200,
                                             ![s].id = team.id,
                                             ![s].rows = {CatalogRow("teams", team.id)}]
       ELSE /\ Respond(s, 400, {})
            /\ UNCHANGED teams
    /\ UNCHANGED <<profiles, requests, history, notes, started, permCall,
                   instructions, worksheet, equipment, workcenters, team_members,
                   page, serial>>

\* insert(membersToInsert) into team_members: an error is logged and the
\* request is answered as if the insert had succeeded.
TeamMembers(s, ok) ==
    /\ http[s].pc = "team_members"
    /\ team_members' =
            IF ok THEN team_members \o MembersToInsert(http[s].id, http[s].member_ids)
            ELSE team_members
    /\ Respond(s, 200, {CatalogRow("teams", http[s].id)})
    /\ UNCHANGED <<profiles, requests, history, notes, started, permCall,
                   instructions, worksheet, equipment, workcenters, teams,
                   page, serial>>

(* ------------------------------------------------------------------ *)
(* POST /api/auth/signup                                                *)
(* ------------------------------------------------------------------ *)
\* The accounts of the identity provider: every profile row belongs to
\* one, and "orphan" has one without a profile row.
HasAccount(u) == u = "orphan" \/ profiles[u] # NoProfile

\* The person who signs up (by e-mail address) and req.body.role.
SignupUsers == {"newcomer", "emp"}
SignupBodies == {"ADMIN", "SUPERUSER", JSUndefined}

\* validRoles.includes(role) ? role : 'EMPLOYEE'
UserRole(role) == IF ValidRole(role) THEN role ELSE "EMPLOYEE"

\* The role the database trigger gives the profile row it creates for a
\* new account.
TriggerRole == "EMPLOYEE"

\* Faulty variant: signing up with a registered address goes on to set
\* the role of the account that holds it.
SignupRequest_existingProceeds(s, u, role, ok) ==
    /\ Free(s) /\ started < MaxOps
    /\ LET slot == [Unguarded("signup", NoToken, "signup_role")
                        EXCEPT !.target = u, !.role = role]
       IN  IF ok
           THEN /\ http' = [http EXCEPT ![s] = slot]
                /\ profiles' = IF HasAccount(u) THEN profiles
                               ELSE [profiles EXCEPT ![u] = TriggerRole]
           ELSE /\ http' = [http EXCEPT ![s] =
                        [slot EXCEPT !.pc = "done", !.status = 400]]
                /\ UNCHANGED profiles
    /\ started' = started + 1
    /\ UNCHANGED <<requests, history, notes, permCall, otherTables>>

\* supabase.auth.signUp: an error for a registered address or a failure
\* of the provider, else a new account, for which the trigger creates the
\* profile row.
SignupRequest(s, u, role, ok) ==
    /\ Free(s) /\ started < MaxOps
    /\ LET slot == [Unguarded("signup", NoToken, "signup_role")
                        EXCEPT !.target = u, !.role = role]
       IN  IF ok /\ ~HasAccount(u)
           THEN /\ http' = [http EXCEPT ![s] = slot]
                /\ profiles' = [profiles EXCEPT ![u] = TriggerRole]
           ELSE /\ http' = [http EXCEPT ![s] =
                        [slot EXCEPT !.pc = "done", !.status = 400]]
                /\ UNCHANGED profiles
    /\ started' = started + 1
    /\ UNCHANGED <<requests, history, notes, permCall, otherTables>>

\* update({ role: userRole }).eq('id', data.user.id), 500 ms later.  With
\* the service-role client (admin) an error is answered 500; with the
\* regular client it is logged and the signup succeeds.
SignupRole(s, ok, admin) ==
    /\ http[s].pc = "signup_role"
    /\ IF ok
       THEN /\ profiles' = [profiles EXCEPT ![http[s].target] = UserRole(http[s].role)]
            /\ Respond(s, 200, {})
       ELSE /\ Respond(s, IF admin THEN 500 ELSE 200, {})
            /\ UNCHANGED profiles
    /\ UNCHANGED <<requests, history, notes, started, permCall, otherTables>>

(* ------------------------------------------------------------------ *)
(* POST /api/auth/login                                                 *)
(* ------------------------------------------------------------------ *)
\* Who logs in: an account with a profile row and one without.
LoginUsers == {"emp", "orphan"}
\* Results of signInWithPassword, of admin.listUsers with the search for
\* an unconfirmed user, and of admin.updateUserById.
SigninResults == {"session", "not confirmed", "invalid credentials", "throw"}
ListResults == {"unconfirmed user", "no such user", "throw"}
ConfirmResults == {"returned", "throw"}

\* A response of the login handler; signins and responses count the
\* sign-in attempts and the responses of the request.
LoginRespond(s, status, pc) ==
    http' = [http EXCEPT ![s].pc = pc, ![s].status = status,
                         ![s].responses = @ + 1]

LoginRequest(s, u) ==
    /\ Free(s) /\ started < MaxOps
    /\ http' = [http EXCEPT ![s] =
            [Unguarded("login", NoToken, "login_signin") EXCEPT !.target = u]]
    /\ started' = started + 1
    /\ UNCHANGED <<profiles, requests, history, notes, permCall, otherTables>>

\* The first signInWithPassword; admin: the service-role client exists.
LoginSignin(s, result, admin) ==
    /\ http[s].pc = "login_signin"
    /\ IF result = "session"
       THEN http' = [http EXCEPT ![s].pc = "login_profile", ![s].signins = @ + 1]
       ELSE IF result = "not confirmed"
       THEN http' = [http EXCEPT ![s].signins = @ + 1,
                        ![s].pc = IF admin THEN "login_list" ELSE "login_unconfirmed"]
       ELSE http' = [http EXCEPT ![s].pc = "done",
                                 ![s].status = IF result = "throw" THEN 500 ELSE 400,
                                 ![s].signins = @ + 1, ![s].responses = @ + 1]
    /\ UNCHANGED <<profiles, requests, history, notes, started, permCall, otherTables>>

\* admin.listUsers() and the search for the address among its users.
LoginListUsers(s, result) ==
    /\ http[s].pc = "login_list"
    /\ Goto(s, IF result = "unconfirmed user" THEN "login_confirm"
               ELSE "login_unconfirmed")
    /\ UNCHANGED <<profiles, requests, history, notes, started, permCall, otherTables>>

\* admin.updateUserById(user.id, { email_confirm: true }); what it returns
\* is not inspected.
LoginConfirm(s, result) ==
    /\ http[s].pc = "login_confirm"
    /\ Goto(s, IF result = "returned" THEN "login_retry" ELSE "login_unconfirmed")
    /\ UNCHANGED <<profiles, requests, history, notes, started, permCall, otherTables>>

\* The second signInWithPassword.
LoginRetry(s, ok) ==
    /\ http[s].pc = "login_retry"
    /\ http' = [http EXCEPT ![s].signins = @ + 1,
                    ![s].pc = IF ok THEN "login_profile" ELSE "login_unconfirmed"]
    /\ UNCHANGED <<profiles, requests, history, notes, started, permCall, otherTables>>

\* Faulty variant: the responses after the read of the profile do not
\* return, the handler goes on to the answer for an unconfirmed address.
LoginProfile_noReturn(s) ==
    /\ http[s].pc = "login_profile"
    /\ LoginRespond(s, IF profiles[http[s].target] = NoProfile THEN 400 ELSE 200,
                    "login_unconfirmed")
    /\ UNCHANGED <<profiles, requests, history, notes, started, permCall, otherTables>>

\* The read of the profile, after either sign-in, and the response.
LoginProfile(s) ==
    /\ http[s].pc = "login_profile"
    /\ LoginRespond(s, IF profiles[http[s].target] = NoProfile THEN 400 ELSE 200,
                    "done")
    /\ UNCHANGED <<profiles, requests, history, notes, started, permCall, otherTables>>

\* res.status(400) "Your email is not confirmed".
LoginUnconfirmed(s) ==
    /\ http[s].pc = "login_unconfirmed"
    /\ LoginRespond(s, 400, "done")
    /\ UNCHANGED <<profiles, requests, history, notes, started, permCall, otherTables>>

Next ==
    \/ \E s \in Slots, c \in Callers : ListRequest(s, c)
    \/ \E s \in Slots : ListQuery(s)
    \/ \E s \in Slots, c \in Callers, id \in RequestIds : DetailsRequest(s, c, id)
    \/ \E s \in Slots : DetailsCheck(s)
    \/ \E s \in Slots : DetailsRead(s)
    \/ \E s \in Slots, c \in Callers, id \in RequestIds, body \in StageBodies :
            StageRequest(s, c, id, body.stage, body.blocked)
    \/ \E s \in Slots : StageOwner(s)
    \/ \E s \in Slots : StageCurrent(s)
    \/ \E s \in Slots, ok \in BOOLEAN : StageUpdate(s, ok)
    \/ \E s \in Slots, ok \in BOOLEAN : StageHistory(s, ok)
    \/ \E s \in Slots, c \in Callers, id \in RequestIds : NotesRequest(s, c, id)
    \/ \E s \in Slots : NotesOwner(s)
    \/ \E s \in Slots, ok \in BOOLEAN : NotesInsert(s, ok)
    \/ \E s \in Slots, c \in Callers, id \in RequestIds : DeleteRequest(s, c, id)
    \/ \E s \in Slots, ok \in BOOLEAN : DeleteRow(s, ok)

Spec == Init /\ [][Next]_vars

\* The stage route and the route that deletes the rows it reads and writes.
NextStage ==
    \/ \E s \in Slots, c \in Callers, id \in RequestIds, body \in StageBodies :
            StageRequest(s, c, id, body.stage, body.blocked)
    \/ \E s \in Slots : StageOwner(s)
    \/ \E s \in Slots : StageCurrent(s)
    \/ \E s \in Slots, ok \in BOOLEAN : StageUpdate(s, ok)
    \/ \E s \in Slots, ok \in BOOLEAN : StageHistory(s, ok)
    \/ \E s \in Slots, c \in Callers, id \in RequestIds : DeleteRequest(s, c, id)
    \/ \E s \in Slots, ok \in BOOLEAN : DeleteRow(s, ok)

SpecStage == Init /\ [][NextStage]_vars

\* The routes that read the id and the ownership columns of the request
\* rows (list, details, notes) and the route that deletes rows.  The stage
\* route writes the stage and blocked columns only, which none of them reads.
NextView ==
    \/ \E s \in Slots, c \in Callers : ListRequest(s, c)
    \/ \E s \in Slots : ListQuery(s)
    \/ \E s \in Slots, c \in Callers, id \in RequestIds : DetailsRequest(s, c, id)
    \/ \E s \in Slots : DetailsCheck(s)
    \/ \E s \in Slots : DetailsRead(s)
    \/ \E s \in Slots, c \in Callers, id \in RequestIds : NotesRequest(s, c, id)
    \/ \E s \in Slots : NotesOwner(s)
    \/ \E s \in Slots, ok \in BOOLEAN : NotesInsert(s, ok)
    \/ \E s \in Slots, c \in Callers, id \in RequestIds : DeleteRequest(s, c, id)
    \/ \E s \in Slots, ok \in BOOLEAN : DeleteRow(s, ok)

SpecView == Init /\ [][NextView]_vars

\* The routes that write a table after an action check alone: create,
\* instructions, worksheet, delete and role change.
NextWrite ==
    \/ \E s \in Slots, c \in Callers, b \in CreateBodies : CreateRequest(s, c, b)
    \/ \E s \in Slots, ok \in BOOLEAN : CreateInsert(s, ok)
    \/ \E s \in Slots, c \in Callers, id \in RequestIds : InstructionsRequest(s, c, id)
    \/ \E s \in Slots, ok \in BOOLEAN : InstructionsInsert(s, ok)
    \/ \E s \in Slots, c \in Callers, id \in RequestIds : WorksheetRequest(s, c, id)
    \/ \E s \in Slots, ok \in BOOLEAN : WorksheetInsert(s, ok)
    \/ \E s \in Slots, c \in Callers, id \in RequestIds : DeleteRequest(s, c, id)
    \/ \E s \in Slots, ok \in BOOLEAN : DeleteRow(s, ok)
    \/ \E s \in Slots, c \in Callers, u \in RoleTargets, r \in RoleBodies :
            RoleRequest(s, c, u, r)
    \/ \E s \in Slots, ok \in BOOLEAN : RoleUpdate(s, ok)

SpecWrite == Init /\ [][NextWrite]_vars

\* Routes behind each kind of check (action check alone, the two view
\* actions, ownership of the row), called with and without an actor.
NextAuth ==
    \/ \E s \in Slots, c \in AllCallers, id \in RequestIds : WorksheetRequest(s, c, id)
    \/ \E s \in Slots, ok \in BOOLEAN : WorksheetInsert(s, ok)
    \/ \E s \in Slots, c \in AllCallers, id \in RequestIds : DetailsRequest(s, c, id)
    \/ \E s \in Slots : DetailsCheck(s)
    \/ \E s \in Slots : DetailsRead(s)
    \/ \E s \in Slots, c \in AllCallers, id \in RequestIds : NotesRequest(s, c, id)
    \/ \E s \in Slots : NotesOwner(s)
    \/ \E s \in Slots, ok \in BOOLEAN : NotesInsert(s, ok)
    \/ \E s \in Slots, c \in AllCallers, id \in RequestIds : DeleteRequest(s, c, id)
    \/ \E s \in Slots, ok \in BOOLEAN : DeleteRow(s, ok)

SpecAuth == Init /\ [][NextAuth]_vars

\* The routes that return request rows or rows of the equipment, work
\* center and team tables, and the route that deletes request rows.
NextRead ==
    \/ \E s \in Slots, c \in Callers : ListRequest(s, c)
    \/ \E s \in Slots : ListQuery(s)
    \/ \E s \in Slots, c \in Callers : SummaryRequest(s, c)
    \/ \E s \in Slots : SummaryQuery(s)
    \/ \E s \in Slots, c \in Callers : RecentRequest(s, c)
    \/ \E s \in Slots : RecentQuery(s)
    \/ \E s \in Slots, c \in Callers : EquipmentRequest(s, c)
    \/ \E s \in Slots : EquipmentQuery(s)
    \/ \E s \in Slots, c \in Callers : RequestsMetaRequest(s, c)
    \/ \E s \in Slots : RequestsMetaQuery(s)
    \/ \E s \in Slots, c \in Callers : WorkcentersRequest(s, c)
    \/ \E s \in Slots : WorkcentersQuery(s)
    \/ \E s \in Slots, c \in Callers : TeamsRequest(s, c)
    \/ \E s \in Slots : TeamsQuery(s)
    \/ \E s \in Slots, c \in Callers, id \in RequestIds : DeleteRequest(s, c, id)
    \/ \E s \in Slots, ok \in BOOLEAN : DeleteRow(s, ok)

SpecRead == Init /\ [][NextRead]_vars

\* Who calls the role route in the specification of the user accounts.
UserCallers == {"adm", "mgr", "emp", "newcomer", NoToken}

\* The routes that write profiles (signup, role change) next to routes
\* that write other tables.
NextUsers ==
    \/ \E s \in Slots, u \in SignupUsers, r \in SignupBodies, ok \in BOOLEAN :
            SignupRequest(s, u, r, ok)
    \/ \E s \in Slots, ok \in BOOLEAN, admin \in BOOLEAN : SignupRole(s, ok, admin)
    \/ \E s \in Slots, c \in UserCallers, u \in RoleTargets, r \in RoleBodies :
            RoleRequest(s, c, u, r)
    \/ \E s \in Slots, ok \in BOOLEAN : RoleUpdate(s, ok)
    \/ \E s \in Slots, c \in UserCallers, b \in CreateBodies : CreateRequest(s, c, b)
    \/ \E s \in Slots, ok \in BOOLEAN : CreateInsert(s, ok)
    \/ \E s \in Slots, c \in UserCallers, id \in RequestIds : DeleteRequest(s, c, id)
    \/ \E s \in Slots, ok \in BOOLEAN : DeleteRow(s, ok)

SpecUsers == InitUsers /\ [][NextUsers]_vars

\* Who calls, and which rows are named, where rows are created, changed
\* and deleted side by side: the ids of the first rows and the id the
\* first insert gives out.
OwnerCallers == {"mgr", "tech", "emp"}
OwnerIds == RequestIds \cup {NumRequests + 1}

\* req.body.created_by_user_id of a create: absent, or the id of an
\* account.
OwnerBodies == {JSUndefined, "mgr", "emp"}

\* The routes that write maintenance_requests: create, stage change and
\* delete.
NextOwner ==
    \/ \E s \in Slots, c \in OwnerCallers, b \in OwnerBodies : CreateRequest(s, c, b)
    \/ \E s \in Slots, ok \in BOOLEAN : CreateInsert(s, ok)
    \/ \E s \in Slots, c \in OwnerCallers, id \in OwnerIds, body \in StageBodies :
            StageRequest(s, c, id, body.stage, body.blocked)
    \/ \E s \in Slots : StageOwner(s)
    \/ \E s \in Slots : StageCurrent(s)
    \/ \E s \in Slots, ok \in BOOLEAN : StageUpdate(s, ok)
    \/ \E s \in Slots, ok \in BOOLEAN : StageHistory(s, ok)
    \/ \E s \in Slots, c \in OwnerCallers, id \in OwnerIds : DeleteRequest(s, c, id)
    \/ \E s \in Slots, ok \in BOOLEAN : DeleteRow(s, ok)

SpecOwner == Init /\ [][NextOwner]_vars

\* Who calls create-team: the two roles of manage_teams, a role without
\* it, and nobody.
TeamCallers == {"adm", "mgr", "emp", NoToken}

\* Teams are created while the list of teams is read.
NextTeams ==
    \/ \E s \in Slots, c \in TeamCallers, name \in TeamNames, ids \in TeamMemberIds :
            CreateTeamRequest(s, c, name, ids)
    \/ \E s \in Slots, ok \in BOOLEAN : TeamInsert(s, ok)
    \/ \E s \in Slots, ok \in BOOLEAN : TeamMembers(s, ok)
    \/ \E s \in Slots, c \in TeamCallers : TeamsRequest(s, c)
    \/ \E s \in Slots : TeamsQuery(s)

SpecTeams == Init /\ [][NextTeams]_vars

(* ------------------------------------------------------------------ *)
(* Teams.jsx and WorkCenters.jsx: the create modal                      *)
(* ------------------------------------------------------------------ *)
\* What the user types into the name field.
FormNames == {"", " ", "Crew"}

\* The messages of a page (err and msg in Teams.jsx, formErr and formMsg
\* in WorkCenters.jsx).
NameRequired == "name is required"
RequestFailed == "request failed"
Created == "created successfully"

EmptyForm == [name |-> ""]

SetPage(p, new) == page' = [page EXCEPT ![p] = new]

PageFrame ==
    UNCHANGED <<profiles, requests, history, notes, instructions, worksheet,
                equipment, workcenters, teams, team_members, serial, http,
                started, permCall>>

\* The New Team / New Work Center button: setIsModalOpen(true).
OpenModal(p) ==
    /\ ~page[p].isModalOpen
    /\ SetPage(p, [page[p] EXCEPT !.isModalOpen = TRUE])
    /\ PageFrame

\* setVal("name", v) from the input of the open modal.
SetVal(p, v) ==
    /\ page[p].isModalOpen /\ page[p].form.name # v
    /\ SetPage(p, [page[p] EXCEPT !.form.name = v])
    /\ PageFrame

\* handleSubmit up to its first await; the button is disabled while
\* isLoading.
HandleSubmit(p) ==
    /\ page[p].isModalOpen /\ ~page[p].isLoading
    /\ page[p].timers < MaxTimers
    /\ IF trim(page[p].form.name) = ""
       THEN SetPage(p, [page[p] EXCEPT !.err = NameRequired, !.msg = ""])
       ELSE SetPage(p, [page[p] EXCEPT !.err = "", !.msg = "",
                                       !.isLoading = TRUE, !.submit = "post"])
    /\ PageFrame

\* await apiPost(...) settles: setMsg, or the catch and the finally.
SubmitPost(p, ok) ==
    /\ page[p].submit = "post"
    /\ IF ok
       THEN SetPage(p, [page[p] EXCEPT !.msg = Created, !.submit = "refresh"])
       ELSE SetPage(p, [page[p] EXCEPT !.err = RequestFailed, !.isLoading = FALSE,
                                       !.submit = "none"])
    /\ PageFrame

\* await apiGet(...) settles: setRows and setTimeout(..., 1000), or the
\* catch; then the finally.  The rows of the list are not kept.
SubmitRefresh(p, ok) ==
    /\ page[p].submit = "refresh"
    /\ IF ok
       THEN SetPage(p, [page[p] EXCEPT !.timers = @ + 1, !.isLoading = FALSE,
                                       !.submit = "none"])
       ELSE SetPage(p, [page[p] EXCEPT !.err = RequestFailed, !.isLoading = FALSE,
                                       !.submit = "none"])
    /\ PageFrame

\* The callback of setTimeout: nothing cancels a timer once it is set.
TimerFires(p) ==
    /\ page[p].timers > 0
    /\ SetPage(p, [page[p] EXCEPT !.isModalOpen = FALSE, !.form = EmptyForm,
                                  !.msg = "", !.timers = @ - 1])
    /\ PageFrame

\* handleCloseModal from the Cancel button, which is disabled while
\* isLoading.
HandleCloseModal(p) ==
    /\ page[p].isModalOpen /\ ~page[p].isLoading
    /\ SetPage(p, [page[p] EXCEPT !.isModalOpen = FALSE, !.form = EmptyForm,
                                  !.err = "", !.msg = ""])
    /\ PageFrame

NextModal ==
    \/ \E p \in Pages : OpenModal(p)
    \/ \E p \in Pages, v \in FormNames : SetVal(p, v)
    \/ \E p \in Pages : HandleSubmit(p)
    \/ \E p \in Pages, ok \in BOOLEAN : SubmitPost(p, ok)
    \/ \E p \in Pages, ok \in BOOLEAN : SubmitRefresh(p, ok)
    \/ \E p \in Pages : TimerFires(p)
    \/ \E p \in Pages : HandleCloseModal(p)

SpecModal == Init /\ [][NextModal]_vars

NextLogin ==
    \/ \E s \in Slots, u \in LoginUsers : LoginRequest(s, u)
    \/ \E s \in Slots, r \in SigninResults, admin \in BOOLEAN : LoginSignin(s, r, admin)
    \/ \E s \in Slots, r \in ListResults : LoginListUsers(s, r)
    \/ \E s \in Slots, r \in ConfirmResults : LoginConfirm(s, r)
    \/ \E s \in Slots, ok \in BOOLEAN : LoginRetry(s, ok)
    \/ \E s \in Slots : LoginProfile(s)
    \/ \E s \in Slots : LoginUnconfirmed(s)

SpecLogin == Init /\ [][NextLogin]_vars

(* ------------------------------------------------------------------ *)
(* The calls of hasPermission the program is wired to make              *)
(* ------------------------------------------------------------------ *)
\* The names requireRequestAccess hands to hasPermission.
AccessActions == {"view_all_requests", "view_own_requests"}

\* The name each can* helper of permissions.js hands to hasPermission.
FrontendHelpers ==
    [helper \in {"canViewAllRequests", "canManageEquipment", "canManageWorkcenters",
                 "canManageTeams", "canChangeUserRoles"} |->
        CASE helper = "canViewAllRequests" -> "view_all_requests"
          [] helper = "canManageEquipment" -> "manage_equipment"
          [] helper = "canManageWorkcenters" -> "manage_workcenters"
          [] helper = "canManageTeams" -> "manage_teams"
          [] helper = "canChangeUserRoles" -> "change_user_roles"]

\* The call of hasPermission by the requirePermission of a route.
EvalRoute(route, user) == EvalBackend(user, BackendWiring[route])

\* A call of hasPermission by requireRequestAccess.
EvalAccess(action, user) == EvalBackend(user, action)

\* The call of hasPermission by a can* helper.
EvalHelper(helper, user) == EvalFrontend(user, FrontendHelpers[helper])

NextWiring ==
    \/ \E route \in DOMAIN BackendWiring, u \in UserInputs : EvalRoute(route, u)
    \/ \E a \in AccessActions, u \in UserInputs : EvalAccess(a, u)
    \/ \E helper \in DOMAIN FrontendHelpers, u \in UserInputs : EvalHelper(helper, u)

SpecWiring == Init /\ [][NextWiring]_vars

(* ------------------------------------------------------------------ *)
(* The handlers of the list and details routes on enumerated req fields *)
(* ------------------------------------------------------------------ *)
\* req.userProfile as a handler may find it: the roles with an ownership
\* predicate, a role of the ALL scope, and a role outside the four.
ScopeProfiles ==
    {UserObject("emp", "EMPLOYEE"), UserObject("tech", "TECHNICIAN"),
     UserObject("mgr", "MANAGER"), UserObject("guest", "VIEWER")}

\* The handler of GET /api/requests entered with req.userProfile and
\* req.canViewAll.
ListHandler(s, userProfile, canViewAll) ==
    /\ Free(s) /\ started < MaxOps
    /\ http' = [http EXCEPT ![s] =
            Accepted("list", userProfile.id, 0, JSUndefined, FALSE, userProfile,
                     canViewAll, CallNext, "list_query")]
    /\ started' = started + 1
    /\ UNCHANGED <<profiles, requests, history, notes, permCall, otherTables>>

\* The handler of GET /api/requests/:id/details entered likewise.
DetailsHandler(s, userProfile, canViewAll, id) ==
    /\ Free(s) /\ started < MaxOps
    /\ http' = [http EXCEPT ![s] =
            Accepted("details", userProfile.id, id, JSUndefined, FALSE, userProfile,
                     canViewAll, CallNext, "details_check")]
    /\ started' = started + 1
    /\ UNCHANGED <<profiles, requests, history, notes, permCall, otherTables>>

NextScope ==
    \/ \E s \in Slots, u \in ScopeProfiles, all \in BOOLEAN : ListHandler(s, u, all)
    \/ \E s \in Slots : ListQuery(s)
    \/ \E s \in Slots, u \in ScopeProfiles, all \in BOOLEAN, id \in RequestIds :
            DetailsHandler(s, u, all, id)
    \/ \E s \in Slots : DetailsCheck(s)
    \/ \E s \in Slots : DetailsRead(s)

SpecScope == Init /\ [][NextScope]_vars

(* ------------------------------------------------------------------ *)
(* Claims about hasPermission (checked under SpecPerm)                  *)
(* ------------------------------------------------------------------ *)
Called == permCall.tier \in {"backend", "frontend"}

\* C1: for every action name, with or without a row in the permission
\* table, hasPermission returns true for an actor whose role is ADMIN.
C1_AdminAllowedEverywhere ==
    (Called /\ IsObject(permCall.user) /\ permCall.user.role = "ADMIN")
        => permCall.result = JSTrue

C1_Witness ==
    /\ permCall.tier = "backend"
    /\ IsObject(permCall.user) /\ permCall.user.role = "ADMIN"
    /\ permCall.action \notin Actions
    /\ permCall.result = JSTrue

\* C2: for every role other than ADMIN and every action name that has no
\* row in the permission table, hasPermission returns false.
C2_UnknownActionReturnsFalse ==
    (Called /\ IsObject(permCall.user) /\ permCall.user.role # "ADMIN"
            /\ permCall.action \notin Actions)
        => permCall.result = JSFalse

\* C3: for each of the twelve actions of the table and each of the four
\* roles, hasPermission returns true exactly when the role is in the role
\* list the table stores for the action.
C3_TableDecides ==
    (Called /\ IsObject(permCall.user) /\ permCall.user.role \in Roles
            /\ permCall.action \in Actions)
        => /\ permCall.result \in {JSTrue, JSFalse}
           /\ (permCall.result = JSTrue) <=>
                  (permCall.user.role \in
                      (IF permCall.tier = "backend" THEN permissions
                       ELSE frontend_permissions)[permCall.action])

C3_Witness ==
    /\ permCall.tier = "backend"
    /\ IsObject(permCall.user) /\ permCall.user.role = "ADMIN"
    /\ permCall.action = "add_worksheet"
    /\ permCall.result = JSTrue

\* C4: for a null or absent actor, or an actor whose role is null, empty
\* or absent, hasPermission returns false for every action and does not
\* throw.
C4_NoRoleReturnsFalse ==
    (Called /\ (~IsObject(permCall.user) \/ ~Truthy(permCall.user.role)))
        => permCall.result = JSFalse

C4_Witness ==
    /\ permCall.tier = "frontend"
    /\ IsObject(permCall.user) /\ permCall.user.role = JSNull
    /\ permCall.action = "view_own_requests"
    /\ permCall.result = JSFalse


(* ------------------------------------------------------------------ *)
(* Claims about the request routes                                      *)
(* ------------------------------------------------------------------ *)
Allowed(userProfile, action) == hasPermission(userProfile, action) = JSTrue

Served(s, op) == http[s].op = op /\ http[s].pc = "done" /\ http[s].status = 200

\* C5: every record the list or the details operation returns to an
\* EMPLOYEE has created_by_user_id equal to the actor's id, and every
\* record returned to a TECHNICIAN has technician_id equal to the actor's id.
C5_OwnScopeRows ==
    \A s \in Slots :
        (Served(s, "list") \/ Served(s, "details")) =>
            /\ http[s].userProfile.role = "EMPLOYEE" =>
                  \A r \in http[s].rows :
                      r.created_by_user_id = http[s].userProfile.id
            /\ http[s].userProfile.role = "TECHNICIAN" =>
                  \A r \in http[s].rows :
                      r.technician_id = http[s].userProfile.id

\* An EMPLOYEE's list holds a row while the table holds a row of another
\* creator as well.
C5_Witness ==
    \E s \in Slots :
        /\ Served(s, "list")
        /\ http[s].userProfile.role = "EMPLOYEE"
        /\ http[s].rows # {}
        /\ \E i \in DOMAIN requests :
              requests[i].created_by_user_id # http[s].userProfile.id

\* C6: an actor allowed view_all_requests receives from the list operation
\* every row of the table, whatever the rows' created_by_user_id and
\* technician_id.
C6_ViewAllUnfiltered ==
    [][\A s \in Slots :
        (/\ http[s].pc = "list_query" /\ http'[s].pc = "done"
         /\ Allowed(http[s].userProfile, "view_all_requests"))
        => /\ http'[s].status = 200
           /\ http'[s].rows = {Returned(requests[i]) : i \in DOMAIN requests}]_vars

C6_Witness ==
    \E s \in Slots :
        /\ Served(s, "list")
        /\ http[s].userProfile.role = "MANAGER"
        /\ \E r \in http[s].rows :
              /\ r.created_by_user_id # http[s].userProfile.id
              /\ r.technician_id # http[s].userProfile.id

\* C7: an authenticated actor allowed neither view_all_requests nor
\* view_own_requests is answered 403 by the list and details operations;
\* the handler does not run and no rows are returned.
C7_NoViewPermissionForbidden ==
    \A s \in Slots :
        (/\ http[s].op \in {"list", "details"}
         /\ IsObject(http[s].userProfile)
         /\ ~Allowed(http[s].userProfile, "view_all_requests")
         /\ ~Allowed(http[s].userProfile, "view_own_requests"))
        => /\ http[s].pc = "done"
           /\ http[s].status = 403
           /\ http[s].rows = {}

C7_Witness ==
    \E s \in Slots :
        /\ http[s].op = "details"
        /\ http[s].userProfile.id = "guest"
        /\ http[s].pc = "done" /\ http[s].status = 403

\* C8: a stage change by a TECHNICIAN on a record assigned to another
\* user, or on a record that does not exist, has passed the action check
\* for update_request_stage and is answered 403 by the ownership check,
\* leaving the request rows and the audit log as they were; a TECHNICIAN's
\* stage change goes on only for a record assigned to the actor.
C8_ForeignStageChangeDenied ==
    [][\A s \in Slots :
        /\ (/\ http[s].pc = "stage_owner" /\ http'[s] # http[s]
            /\ \/ http[s].id \notin DOMAIN requests
               \/ requests[http[s].id].technician_id # http[s].userProfile.id)
           => /\ Allowed(http[s].userProfile, "update_request_stage")
              /\ http'[s].pc = "done" /\ http'[s].status = 403
              /\ requests' = requests
              /\ history' = history
        /\ (/\ http'[s].op = "stage"
            /\ http'[s].userProfile.role = "TECHNICIAN"
            /\ http'[s].pc \in {"stage_current", "stage_update", "stage_history"}
            /\ http'[s].id \in DOMAIN requests')
           => requests'[http'[s].id].technician_id = http'[s].userProfile.id]_vars

\* A TECHNICIAN was answered 403 for a row assigned to someone else; the
\* row still holds its first stage and nothing was logged.
C8_Witness ==
    \E s \in Slots :
        /\ http[s].op = "stage" /\ http[s].pc = "done" /\ http[s].status = 403
        /\ http[s].userProfile.role = "TECHNICIAN"
        /\ http[s].id \in DOMAIN requests
        /\ requests[http[s].id].technician_id # http[s].userProfile.id
        /\ requests[http[s].id].stage = "NEW_REQUEST"
        /\ history = << >>

\* C9: an add-note request by an EMPLOYEE on a request created by another
\* user has passed the action check for add_notes and is answered 403 by
\* the ownership check, and no note is inserted; a note is stored only
\* when the action check and, for an EMPLOYEE, the ownership check passed.
C9_ForeignNoteDenied ==
    [][/\ \A s \in Slots :
            (/\ http[s].pc = "notes_owner" /\ http'[s] # http[s]
             /\ \/ http[s].id \notin DOMAIN requests
                \/ requests[http[s].id].created_by_user_id # http[s].userProfile.id)
            => /\ Allowed(http[s].userProfile, "add_notes")
               /\ http'[s].pc = "done" /\ http'[s].status = 403
               /\ notes' = notes
       /\ \A i \in 1 .. Len(notes') :
            i > Len(notes) =>
                LET author == getUserProfile(notes'[i].created_by_user_id)
                IN  /\ Allowed(author, "add_notes")
                    /\ (author.role = "EMPLOYEE" /\ notes'[i].request_id \in DOMAIN requests)
                          => requests[notes'[i].request_id].created_by_user_id
                                = author.id]_vars

\* An EMPLOYEE was answered 403 for a row of another creator, and the
\* table of notes is empty.
C9_Witness ==
    \E s \in Slots :
        /\ http[s].op = "notes" /\ http[s].pc = "done" /\ http[s].status = 403
        /\ http[s].userProfile.role = "EMPLOYEE"
        /\ http[s].id \in DOMAIN requests
        /\ requests[http[s].id].created_by_user_id # http[s].userProfile.id
        /\ notes = << >>

\* C10: whenever a stage-change request is answered with success, the
\* audit log holds an entry for that request with to_stage equal to the
\* new stage and changed_by equal to the actor's id.
C10_SuccessHasAuditEntry ==
    \A s \in Slots :
        Served(s, "stage") =>
            \E i \in 1 .. Len(history) :
                /\ history[i].request_id = http[s].id
                /\ history[i].to_stage = http[s].stage
                /\ history[i].changed_by_user_id = http[s].userProfile.id

\* C11: every audit entry appended by a stage change has as from_stage
\* the stage the record held immediately before that change was applied,
\* also when two stage changes of the same record interleave.  Stated at
\* the step that applies the change: the entry the request goes on to
\* append carries the stage the row held in the state the update
\* replaced.
C11_FromStageIsPriorStage ==
    [][\A s \in Slots :
            (http[s].pc = "stage_update" /\ http'[s].pc = "stage_history")
            => HistoryRow(http'[s]).from_stage = requests[http[s].id].stage]_vars

\* C12: the stage-history log is append-only: every step leaves the
\* entries already in the log in place and unmodified, so the log of any
\* state is a prefix of the log of every later state.
C12_AuditLogAppendOnly ==
    [][/\ Len(history') >= Len(history)
       /\ SubSeq(history', 1, Len(history)) = history]_vars

\* A request row was deleted and the log still holds an entry of it.
C12_Witness ==
    \E i \in 1 .. Len(history) : history[i].request_id \notin DOMAIN requests

\* The action check of the route of an operation, for an actor.
PassesActionCheck(op, actor) ==
    IF op \in {"list", "details"}
    THEN Allowed(actor, "view_all_requests") \/ Allowed(actor, "view_own_requests")
    ELSE Allowed(actor, WiredAction(op))

\* The actor does not hold the row the request names: the row is gone, or
\* the column the route compares names another account.
LacksOwnership(op, actor, id) ==
    \/ id \notin DOMAIN requests
    \/ op = "notes" /\ requests[id].created_by_user_id # actor.id
    \/ op = "details" /\ actor.role = "EMPLOYEE"
          /\ requests[id].created_by_user_id # actor.id
    \/ op = "details" /\ actor.role = "TECHNICIAN"
          /\ requests[id].technician_id # actor.id

\* C13: on every guarded route a request without a resolvable actor (no
\* token, an invalid token, no profile row) is answered 401 and only such
\* a request is; a request answered 403 has a resolved actor that failed
\* the action check or the ownership check, and a resolved actor that
\* fails the action check is answered 403.
C13_UnauthenticatedVsForbidden ==
    \A s \in Slots :
        http[s].op # "none" =>
            LET actor == getUserProfile(http[s].token)
                rejected(status) == http[s].pc = "done" /\ http[s].status = status
            IN  /\ ~IsObject(actor) => rejected(401)
                /\ http[s].status = 401 => ~IsObject(actor)
                /\ (IsObject(actor) /\ ~PassesActionCheck(http[s].op, actor))
                      => rejected(403)
                /\ http[s].status = 403 =>
                      /\ IsObject(actor)
                      /\ \/ ~PassesActionCheck(http[s].op, actor)
                         \/ LacksOwnership(http[s].op, actor, http[s].id)

\* A caller without a profile row was answered 401 and an EMPLOYEE that
\* passed the action check was answered 403 for a row of another creator.
C13_Witness ==
    \E s, r \in Slots :
        /\ http[s].token = "orphan" /\ http[s].pc = "done" /\ http[s].status = 401
        /\ http[r].op = "notes" /\ http[r].pc = "done" /\ http[r].status = 403
        /\ http[r].userProfile.role = "EMPLOYEE"
        /\ http[r].id \in DOMAIN requests

\* The stored records.
Tables == <<profiles, requests, history, notes, instructions, worksheet,
            equipment, workcenters, teams, team_members>>

\* The request of a slot is inside its handler: the middleware has called
\* next() and the response has not been sent.
InHandler(slot) == slot.pc \notin {"idle", "done", "hung"}

\* C14: a guarded handler accesses the store only after the permission
\* check of the same request has allowed its actor, and a request that is
\* denied or unauthenticated changes no stored record: a request is inside
\* its handler only with a resolved actor the check allowed, and every
\* step that changes a table is a step of such a handler.
C14_StoreAccessAfterAllow ==
    [][/\ \A s \in Slots :
            InHandler(http'[s]) =>
                /\ IsObject(http'[s].userProfile)
                /\ PassesActionCheck(http'[s].op, http'[s].userProfile)
       /\ Tables' # Tables =>
            \E s \in Slots :
                /\ InHandler(http[s]) /\ http'[s] # http[s]
                /\ PassesActionCheck(http[s].op, http[s].userProfile)]_vars

\* A delete was answered 403 while the insert of an allowed create is
\* pending, and every request row is still stored.
C14_Witness ==
    \E s, r \in Slots :
        /\ http[s].op = "delete" /\ http[s].pc = "done" /\ http[s].status = 403
        /\ http[r].pc = "create_insert"
        /\ DOMAIN requests = RequestIds

\* The slot whose handler takes the step, for an operation and the action
\* its actor must be allowed.
EffectBy(op, action) ==
    \E s \in Slots :
        /\ http[s].op = op /\ InHandler(http[s]) /\ http'[s] # http[s]
        /\ Allowed(http[s].userProfile, action)

\* C15: each write takes effect only for an actor allowed the action wired
\* to it: a row is created only under create_request, deleted only under
\* delete_request, an instruction stored only under add_instructions, a
\* worksheet comment only under add_worksheet, a role changed only under
\* change_user_roles; an EMPLOYEE's worksheet request is answered 403 and a
\* MANAGER's delete request passes the check.
C15_WritesOnlyWhenAllowed ==
    [][/\ DOMAIN requests' \ DOMAIN requests # {} => EffectBy("create", "create_request")
       /\ DOMAIN requests \ DOMAIN requests' # {} => EffectBy("delete", "delete_request")
       /\ instructions' # instructions => EffectBy("instructions", "add_instructions")
       /\ worksheet' # worksheet => EffectBy("worksheet", "add_worksheet")
       /\ profiles' # profiles => EffectBy("role", "change_user_roles")
       /\ \A s \in Slots :
            /\ (http'[s].op = "worksheet" /\ http'[s].userProfile.role = "EMPLOYEE")
                  => http'[s].pc = "done" /\ http'[s].status = 403
            /\ (http'[s].op = "delete" /\ http'[s].userProfile.role = "MANAGER")
                  => http'[s].status \notin {401, 403}]_vars

\* An EMPLOYEE's worksheet request was answered 403, no worksheet comment
\* is stored, and a MANAGER's delete request has removed a row.
C15_Witness ==
    \E s, r \in Slots :
        /\ http[s].op = "worksheet" /\ http[s].userProfile.role = "EMPLOYEE"
        /\ http[s].status = 403 /\ worksheet = << >>
        /\ Served(r, "delete") /\ http[r].userProfile.role = "MANAGER"
        /\ DOMAIN requests # RequestIds

\* The visibility policy: the actor may read every row (view_all_requests)
\* or, under view_own_requests, a TECHNICIAN the rows assigned to it and
\* an EMPLOYEE the rows it created.
InScope(actor, row) ==
    \/ Allowed(actor, "view_all_requests")
    \/ /\ Allowed(actor, "view_own_requests")
       /\ \/ actor.role = "TECHNICIAN" /\ row.technician_id = actor.id
          \/ actor.role = "EMPLOYEE" /\ row.created_by_user_id = actor.id

\* C16: every route that returns data of maintenance requests resolves
\* the caller and narrows by the visibility policy: a response of the
\* list, the recent-requests or the summary route goes to a resolved actor
\* only, every row in it is in the actor's scope, and the summary counts
\* no row outside that scope.
C16_RequestDataWithinScope ==
    \A s \in Slots :
        LET actor == getUserProfile(http[s].token)
        IN  /\ (Served(s, "list") \/ Served(s, "recent")) =>
                /\ IsObject(actor)
                /\ \A row \in http[s].rows : InScope(actor, row)
            /\ Served(s, "summary") =>
                /\ IsObject(actor)
                /\ \A r \in http[s].rows :
                      r.open_requests > 0 => Allowed(actor, "view_all_requests")

\* C17: rows of the equipment, work-center and team tables are returned
\* only to an actor allowed manage_equipment, manage_workcenters and
\* manage_teams respectively, on every route that returns such rows.
C17_CatalogRowsNeedManage ==
    \A s \in Slots :
        (http[s].pc = "done" /\ http[s].status = 200
         /\ http[s].op \in {"equipment", "requests_meta", "workcenters", "teams"})
        => \A row \in http[s].rows :
              Allowed(getUserProfile(http[s].token), "manage_" \o row.table)

\* The actor is provisioned: it has a profile row, and no signup that
\* created the row is still to set its role.
Provisioned(u) ==
    /\ profiles[u] # NoProfile
    /\ \/ InitProfiles[u] # NoProfile
       \/ \A s \in Slots : ~(http[s].pc = "signup_role" /\ http[s].target = u)

\* C18: the stored role of a provisioned actor changes only in the update
\* of a change-role request that names the actor and whose caller passed
\* the check for change_user_roles as an ADMIN; no step of signup or of
\* any other route changes it.
C18_RoleChangesOnlyByRoleRoute ==
    [][\A u \in Users :
            (Provisioned(u) /\ profiles'[u] # profiles[u]) =>
                \E s \in Slots :
                    /\ http[s].op = "role" /\ http[s].pc = "role_update"
                    /\ http'[s].pc = "done" /\ http[s].target = u
                    /\ Allowed(http[s].userProfile, "change_user_roles")
                    /\ http[s].userProfile.role = "ADMIN"]_vars

\* A signup with a registered address was answered 400, and a change-role
\* request of an ADMIN has changed the role of its target.
C18_Witness ==
    \E s, r \in Slots :
        /\ http[s].op = "signup" /\ http[s].target = "emp" /\ http[s].status = 400
        /\ Served(r, "role") /\ http[r].userProfile.role = "ADMIN"
        /\ profiles[http[r].target] = http[r].role
        /\ profiles[http[r].target] # InitProfiles[http[r].target]

\* C19: every stored role is one of ADMIN, MANAGER, TECHNICIAN, EMPLOYEE;
\* a signup whose role is outside the set writes EMPLOYEE or nothing, and
\* a change-role request whose role is outside the set is answered 400
\* without a change of the profiles.
C19_RolesStayInClosedSet ==
    [][/\ \A u \in Users : profiles'[u] # NoProfile => profiles'[u] \in Roles
       /\ \A s \in Slots :
            /\ (http[s].pc = "signup_role" /\ http'[s].pc = "done"
                /\ http[s].role \notin Roles)
                  => profiles'[http[s].target] \in {"EMPLOYEE", profiles[http[s].target]}
            /\ (http'[s] # http[s] /\ http'[s].op = "role"
                /\ http'[s].target # "" /\ http'[s].role \notin Roles)
                  => /\ http'[s].pc = "done" /\ http'[s].status = 400
                     /\ profiles' = profiles]_vars

\* A signup with the role SUPERUSER has stored EMPLOYEE, and a change-role
\* request of an ADMIN with that role was answered 400.
C19_Witness ==
    \E s, r \in Slots :
        /\ Served(s, "signup") /\ http[s].role = "SUPERUSER"
        /\ profiles[http[s].target] = "EMPLOYEE"
        /\ http[r].op = "role" /\ http[r].role = "SUPERUSER" /\ http[r].status = 400
        /\ http[r].userProfile.role = "ADMIN"

\* C20: every action name the backend hands to hasPermission at a wiring
\* point (the requirePermission of a route, requireRequestAccess) and
\* every name a can* helper of the frontend hands to it has a row in the
\* permission table of its tier, so no wired call ends in the lookup of a
\* missing row.
C20_WiredActionsHaveRows ==
    Called =>
        /\ permCall.tier = "backend" => permCall.action \in DOMAIN permissions
        /\ permCall.tier = "frontend" => permCall.action \in DOMAIN frontend_permissions
        /\ permCall.result \in {JSTrue, JSFalse}

\* The helper canManageTeams was evaluated for a MANAGER and returned true.
C20_Witness ==
    /\ permCall.tier = "frontend" /\ permCall.action = "manage_teams"
    /\ IsObject(permCall.user) /\ permCall.user.role = "MANAGER"
    /\ permCall.result = JSTrue

\* C21: a permission check for an action name without a row in the table
\* is distinguishable from an ordinary denial: for an actor with a role
\* other than ADMIN the call does not end in the plain false of a denial
\* with nothing logged.
C21_MissingRowIsSignalled ==
    (/\ permCall.tier = "backend"
     /\ permCall.action \notin DOMAIN permissions
     /\ IsObject(permCall.user) /\ Truthy(permCall.user.role)
     /\ permCall.user.role # "ADMIN")
    => \/ permCall.result # JSFalse
       \/ hasPermission_console(permCall.user, permCall.action) # << >>

C23_FrontendEqualsBackend ==
    /\ permCall.tier = "backend"
          => permCall.result = frontend_hasPermission(permCall.user, permCall.action)
    /\ permCall.tier = "frontend"
          => permCall.result = hasPermission(permCall.user, permCall.action)

\* The frontend denied an action of the table to an actor without a role,
\* as the backend does.
C23_Witness ==
    /\ permCall.tier = "frontend"
    /\ IsObject(permCall.user) /\ ~Truthy(permCall.user.role)
    /\ permCall.action = "view_own_requests" /\ permCall.result = JSFalse
    /\ hasPermission(permCall.user, permCall.action) = JSFalse

\* Steps the login handler has left at most, by its position.
LoginRank(pc) ==
    CASE pc = "login_signin" -> 6
      [] pc = "login_list" -> 5
      [] pc = "login_confirm" -> 4
      [] pc = "login_retry" -> 3
      [] pc = "login_profile" -> 2
      [] pc = "login_unconfirmed" -> 1
      [] OTHER -> 0

\* C24: a login request attempts the password sign-in at most twice, the
\* second time only after the first ended in the unconfirmed-address
\* error and the admin client listed the account and was called to
\* confirm it; every step of the handler brings it nearer to its end, and
\* it ends with exactly one response.
C24_LoginTwoAttemptsOneResponse ==
    [][\A s \in Slots :
            (http'[s].op = "login" /\ http'[s] # http[s]) =>
                /\ http'[s].signins <= 2
                /\ http'[s].responses = IF http'[s].pc = "done" THEN 1 ELSE 0
                /\ http[s].op = "login" /\ InHandler(http[s])
                      => LoginRank(http'[s].pc) < LoginRank(http[s].pc)
                /\ http'[s].pc = "login_retry" => http[s].pc = "login_confirm"
                /\ http'[s].pc = "login_confirm" => http[s].pc = "login_list"
                /\ http'[s].pc = "login_list"
                      => http[s].pc = "login_signin" /\ http'[s].signins = 1
                /\ (http[s].op = "login" /\ InHandler(http[s])
                    /\ http'[s].signins # http[s].signins)
                      => http[s].pc \in {"login_signin", "login_retry"}]_vars

\* A login was answered 200 after its second sign-in attempt.
C24_Witness ==
    \E s \in Slots :
        /\ Served(s, "login") /\ http[s].signins = 2 /\ http[s].responses = 1

\* A TECHNICIAN's stage change that has passed its ownership check and
\* has not answered yet.
PastOwnerCheck(slot) ==
    /\ slot.op = "stage" /\ slot.userProfile.role = "TECHNICIAN"
    /\ slot.pc \in {"stage_current", "stage_update", "stage_history"}

\* C25: no step changes created_by_user_id or technician_id of a row that
\* exists before and after it, a new row gets an id no row had before, and
\* so the row a TECHNICIAN's stage change has checked is, while it exists,
\* still assigned to that TECHNICIAN: only a delete takes it away.
C25_OwnershipColumnsImmutable ==
    [][/\ \A i \in DOMAIN requests \cap DOMAIN requests' :
              /\ requests'[i].created_by_user_id = requests[i].created_by_user_id
              /\ requests'[i].technician_id = requests[i].technician_id
       /\ \A i \in DOMAIN requests' \ DOMAIN requests : i > serial /\ i = serial'
       /\ \A s \in Slots :
              (PastOwnerCheck(http'[s]) /\ http'[s].id \in DOMAIN requests')
                  => requests'[http'[s].id].technician_id = http'[s].userProfile.id]_vars

\* A TECHNICIAN's stage change has passed its ownership check while another
\* request changed the stage of the same row, which is still assigned to
\* the TECHNICIAN and still has its creator.
C25_Witness ==
    \E s, r \in Slots :
        /\ PastOwnerCheck(http[s]) /\ http[s].pc = "stage_update"
        /\ Served(r, "stage") /\ http[r].id = http[s].id
        /\ http[s].id \in DOMAIN requests
        /\ requests[http[s].id].stage # "NEW_REQUEST"
        /\ requests[http[s].id].technician_id = http[s].userProfile.id
        /\ requests[http[s].id].created_by_user_id = InitRow(http[s].id).created_by_user_id

\* C26: the row a create-request stored and returned has the authenticated
\* creator's id as created_by_user_id, so it is in the OWN scope of no
\* EMPLOYEE other than its creator.
C26_CreatorIsAuthenticatedActor ==
    \A s \in Slots :
        Served(s, "create") =>
            \A row \in http[s].rows :
                /\ row.created_by_user_id = http[s].userProfile.id
                /\ \A u \in Users \ {http[s].userProfile.id} :
                      profiles[u] = "EMPLOYEE" => row.created_by_user_id # u

\* C27: a stage change whose update fails answers with an error and leaves
\* the row and the audit log as they are; the handler reaches the audit
\* insert only in the step that applied its update to the row, and the
\* audit log grows by at most one entry, for that row, in the step that
\* leaves the audit insert: so a row never has more audit entries than
\* updates applied to it.
C27_AuditOnlyAfterAppliedUpdate ==
    [][/\ \A s \in Slots :
              /\ (http[s].pc = "stage_update" /\ http'[s].pc = "done") =>
                    /\ http'[s].status = 400
                    /\ history' = history /\ requests' = requests
              /\ (http'[s].pc = "stage_history" /\ http[s].pc # "stage_history") =>
                    /\ http[s].pc = "stage_update"
                    /\ http[s].id \in DOMAIN requests
                    /\ requests'[http[s].id].stage = http[s].stage
                    /\ requests'[http[s].id].blocked = http[s].blocked
       /\ history' # history =>
              \E s \in Slots :
                  /\ http[s].pc = "stage_history" /\ http'[s].pc = "done"
                  /\ Len(history') = Len(history) + 1
                  /\ SubSeq(history', 1, Len(history)) = history
                  /\ history'[Len(history')].request_id = http[s].id]_vars

\* A stage change of one of the first rows ran side by side with a delete
\* of the row; the delete was served and the stage change was answered
\* 400 with no audit entry written.
C27_Witness ==
    \E s, r \in Slots :
        /\ http[s].op = "stage" /\ http[s].pc = "done" /\ http[s].status = 400
        /\ http[s].id \in RequestIds
        /\ Served(r, "delete") /\ http[r].id = http[s].id
        /\ http[s].id \notin DOMAIN requests
        /\ history = << >>

\* C28: the middleware of a request reads the actor's role from the
\* profiles table as it is when the request starts: the request is
\* checked, and 403 is answered or not, by the role stored then, whatever
\* the role was before; the steps of a request already admitted keep the
\* actor read at its start.
C28_RoleReadPerRequest ==
    [][\A s \in Slots :
          /\ (started' = started + 1 /\ http'[s] # http[s]
              /\ http'[s].token \in DOMAIN profiles
              /\ profiles[http'[s].token] # NoProfile) =>
                LET actor == UserObject(http'[s].token, profiles[http'[s].token])
                IN  /\ http'[s].userProfile = actor
                    /\ http'[s].status = 403 <=> ~PassesActionCheck(http'[s].op, actor)
          /\ (started' = started /\ InHandler(http[s])) =>
                http'[s].userProfile = http[s].userProfile]_vars

\* The ADMIN account was made an EMPLOYEE, and its next delete was checked
\* as an EMPLOYEE's and answered 403.
C28_Witness ==
    \E s \in Slots :
        /\ http[s].op = "delete" /\ http[s].token = "adm"
        /\ http[s].pc = "done" /\ http[s].status = 403
        /\ http[s].userProfile.role = "EMPLOYEE"
        /\ InitProfiles["adm"] = "ADMIN" /\ profiles["adm"] = "EMPLOYEE"

\* A delete admitted while the account was ADMIN is still to be applied
\* after the role change that made the account an EMPLOYEE was served.
C28_AdmittedUnderOldRole ==
    \E s, r \in Slots :
        /\ http[s].op = "delete" /\ http[s].token = "adm"
        /\ http[s].pc = "delete_row" /\ http[s].userProfile.role = "ADMIN"
        /\ Served(r, "role") /\ http[r].target = "adm"
        /\ profiles["adm"] = "EMPLOYEE"

\* A name or a member id that is absent or blank.
Blank(str) == str \in {JSUndefined, JSNull, "", " ", "  "}

\* C29: a create-team whose name is absent or blank is answered with an
\* error at once and takes no further step; a team row is inserted only by
\* a create-team with a name; member rows are appended only by a
\* create-team whose team row exists, carry its id and no blank user id;
\* and the step after the member insert answers 200 and leaves the team
\* row, whether or not the insert succeeded.
C29_TeamCreateErrorHandling ==
    [][/\ \A s \in Slots :
              /\ (http'[s] # http[s] /\ http'[s].op = "create_team"
                  /\ Blank(http'[s].name)) =>
                    /\ http'[s].pc = "done" /\ http'[s].status \in {400, 401, 403}
                    /\ teams' = teams /\ team_members' = team_members
              /\ (http[s].pc = "team_members" /\ http'[s] # http[s]) =>
                    /\ http'[s].pc = "done" /\ http'[s].status = 200
                    /\ teams' = teams /\ http[s].id \in teams
       /\ teams' # teams =>
              \E s \in Slots :
                  /\ http[s].op = "create_team" /\ http[s].pc = "team_insert"
                  /\ ~Blank(http[s].name)
                  /\ team_members' = team_members
       /\ team_members' # team_members =>
              \E s \in Slots :
                  /\ http[s].op = "create_team" /\ http[s].pc = "team_members"
                  /\ http[s].id \in teams
                  /\ Len(team_members') > Len(team_members)
                  /\ SubSeq(team_members', 1, Len(team_members)) = team_members
                  /\ \A k \in Len(team_members) + 1 .. Len(team_members') :
                        /\ team_members'[k].team_id = http[s].id
                        /\ ~Blank(team_members'[k].user_id)
                        /\ \E j \in 1..Len(http[s].member_ids) :
                              team_members'[k].user_id = trim(http[s].member_ids[j])]_vars

\* A create-team with a name and member ids was answered 200 although its
\* member insert failed: the team row is there and no member row is.
C29_Witness ==
    \E s \in Slots :
        /\ Served(s, "create_team") /\ http[s].id \in teams
        /\ Len(MembersToInsert(http[s].id, http[s].member_ids)) > 0
        /\ team_members = << >>

\* The modal of a page is open with an empty message and an empty error
\* and no submit is running: handleCloseModal or a timer has closed it
\* after the last submit, and the user has opened it again.
Reopened(pg) ==
    /\ pg.isModalOpen /\ pg.submit = "none" /\ ~pg.isLoading
    /\ pg.msg = "" /\ pg.err = ""

\* C30: a timer that fires while the modal of its page has been closed and
\* opened again since the last submit neither closes the modal nor
\* resets the form.
C30_NoTimerAgainstReopenedModal ==
    [][\A p \in Pages :
            (Reopened(page[p]) /\ page'[p].timers < page[p].timers) =>
                /\ page'[p].isModalOpen
                /\ page'[p].form = page[p].form]_vars

=============================================================================
